---- MODULE Spec2Model ----
(***************************************************************************)
(* Model of the workflow execution engine of api/simple_main.py: the       *)
(* top-level scheduler (run_workflow), the foreach/endloop coordinator     *)
(* (find_downstream_nodes, execute_foreach_loop, execute_endloop_node) and *)
(* the sub-workflow runner (execute_sub_workflow), and the condition,      *)
(* file, database and http executors; and of the /run handler of           *)
(* api/main.py.                                                            *)
(***************************************************************************)
EXTENDS Integers, Sequences, FiniteSets, TLC

(***************************************************************************)
(* Bounds of the model.                                                    *)
(***************************************************************************)
\* longest connection list of a generated graph workflow
MaxConns == 2
\* longest list of items a producer node or a foreach configuration holds
MaxItems == 2

(***************************************************************************)
(* Values: the JSON-compatible payloads that flow between nodes, tagged by *)
(* their Python type.  None (of a non-payload field) is the string "None". *)
(***************************************************************************)
None == "None"
VNull == [k |-> "null"]
VInt(n) == [k |-> "int", n |-> n]
VStr(s) == [k |-> "str", s |-> s]
VBytes == [k |-> "bytes"]
VList(xs) == [k |-> "list", xs |-> xs]
VDict(m) == [k |-> "dict", m |-> m]
EmptyMap == [key \in {} |-> VNull]
EmptyDict == VDict(EmptyMap)

IsList(v) == v.k = "list"
IsDict(v) == v.k = "dict"
HasKey(v, key) == IsDict(v) /\ key \in DOMAIN v.m

\* Python truthiness of a payload (`if not x`)
Truthy(v) ==
    CASE v.k = "null" -> FALSE
      [] v.k = "int" -> v.n # 0
      [] v.k = "str" -> v.s # ""
      [] v.k = "bytes" -> TRUE
      [] v.k = "list" -> v.xs # <<>>
      [] v.k = "dict" -> DOMAIN v.m # {}

\* json.dumps(v) raises TypeError when v holds a byte-string anywhere
RECURSIVE JsonSerializable(_)
JsonSerializable(v) ==
    CASE v.k = "bytes" -> FALSE
      [] v.k = "list" -> \A i \in 1..Len(v.xs) : JsonSerializable(v.xs[i])
      [] v.k = "dict" -> \A key \in DOMAIN v.m : JsonSerializable(v.m[key])
      [] OTHER -> TRUE

\* {**d, key: val}
DictSet(d, key, val) ==
    VDict([x \in DOMAIN d.m \cup {key} |-> IF x = key THEN val ELSE d.m[x]])

(***************************************************************************)
(* Sequence helpers.                                                       *)
(***************************************************************************)
Range(s) == {s[i] : i \in 1..Len(s)}

RECURSIVE SeqFilter(_, _)
\* the elements of s that are in set keep, in order
SeqFilter(s, keep) ==
    IF s = <<>> THEN <<>>
    ELSE IF Head(s) \in keep THEN <<Head(s)>> \o SeqFilter(Tail(s), keep)
    ELSE SeqFilter(Tail(s), keep)

\* position of the first occurrence of x in s, 0 when absent
IndexOf(s, x) ==
    IF \E i \in 1..Len(s) : s[i] = x
    THEN CHOOSE i \in 1..Len(s) : s[i] = x /\ \A j \in 1..(i-1) : s[j] # x
    ELSE 0

\* all orderings of a finite set
Perms(S) == {p \in [1..Cardinality(S) -> S] : \A i, j \in 1..Cardinality(S) : i # j => p[i] # p[j]}

(***************************************************************************)
(* find_downstream_nodes: the body of a foreach.                           *)
(***************************************************************************)
RECURSIVE ScanConnections(_, _, _, _, _, _)
\* the inner for-loop over connections_data for one popped node
ScanConnections(nodes, conns, i, current_id, visited, acc) ==
    IF i > Len(conns) THEN acc
    ELSE LET target_id == conns[i].target
             target_type == nodes[target_id].type
         IN IF conns[i].source = current_id /\ target_id \notin visited
            THEN IF target_type = "endloop"
                 THEN ScanConnections(nodes, conns, i + 1, current_id, visited,
                                      [acc EXCEPT !.endloop_node_id = target_id])
                 ELSE IF target_type \in {"end", "foreach"}
                 THEN ScanConnections(nodes, conns, i + 1, current_id, visited, acc)
                 ELSE ScanConnections(nodes, conns, i + 1, current_id, visited,
                                      [acc EXCEPT !.downstream = Append(@, target_id),
                                                  !.queue = Append(@, target_id)])
            ELSE ScanConnections(nodes, conns, i + 1, current_id, visited, acc)

RECURSIVE BfsLoop(_, _, _, _)
\* the while-queue loop
BfsLoop(nodes, conns, visited, acc) ==
    IF acc.queue = <<>> THEN acc
    ELSE LET current_id == Head(acc.queue)
             popped == [acc EXCEPT !.queue = Tail(@)]
         IN IF current_id \in visited
            THEN BfsLoop(nodes, conns, visited, popped)
            ELSE BfsLoop(nodes, conns, visited \cup {current_id},
                         ScanConnections(nodes, conns, 1, current_id,
                                         visited \cup {current_id}, popped))

\* a list that starts with the foreach itself
find_downstream_nodes_WithSelf(foreach_node_id, nodes, conns) ==
    LET fin == BfsLoop(nodes, conns, {},
                       [queue |-> <<foreach_node_id>>, downstream |-> <<foreach_node_id>>,
                        endloop_node_id |-> None])
    IN IF fin.endloop_node_id # None
       THEN Append(fin.downstream, fin.endloop_node_id)
       ELSE fin.downstream

find_downstream_nodes(foreach_node_id, nodes, conns) ==
    LET fin == BfsLoop(nodes, conns, {},
                       [queue |-> <<foreach_node_id>>, downstream |-> <<>>,
                        endloop_node_id |-> None])
    IN IF fin.endloop_node_id # None
       THEN Append(fin.downstream, fin.endloop_node_id)
       ELSE fin.downstream

(***************************************************************************)
(* topological_sort_nodes: Kahn's algorithm.                               *)
(***************************************************************************)
\* in_degree after the adjacency loop
InDegree(ids, conns) ==
    [n \in Range(ids) |-> Cardinality({i \in 1..Len(conns) : conns[i].target = n})]

\* graph[node_id]: the targets of node_id in connection order
Targets(conns, node_id) ==
    LET F[i \in 0..Len(conns)] ==
            IF i = 0 THEN <<>>
            ELSE IF conns[i].source = node_id THEN Append(F[i - 1], conns[i].target)
            ELSE F[i - 1]
    IN F[Len(conns)]

RECURSIVE DecrementTargets(_, _, _)
\* the for-loop over graph[node_id]: st = [in_degree, queue]
DecrementTargets(targets, i, st) ==
    IF i > Len(targets) THEN st
    ELSE LET t == targets[i]
             d == st.in_degree[t] - 1
         IN DecrementTargets(targets, i + 1,
                [in_degree |-> [st.in_degree EXCEPT ![t] = d],
                 queue |-> IF d = 0 THEN Append(st.queue, t) ELSE st.queue])

RECURSIVE KahnLoop(_, _, _)
KahnLoop(conns, st, result) ==
    IF st.queue = <<>> THEN result
    ELSE LET node_id == Head(st.queue)
         IN KahnLoop(conns,
                     DecrementTargets(Targets(conns, node_id), 1,
                                      [st EXCEPT !.queue = Tail(@)]),
                     Append(result, node_id))

\* the result list before the remaining nodes are appended
KahnPrefix(ids, conns) ==
    LET deg == InDegree(ids, conns)
    IN KahnLoop(conns,
                [in_degree |-> deg, queue |-> SeqFilter(ids, {n \in Range(ids) : deg[n] = 0})],
                <<>>)

\* a variant that keeps the order of the node map
topological_sort_nodes_MapOrder(ids, conns) == {ids}

\* the lists topological_sort_nodes can return: `remaining` is a Python set,
\* so result.extend(remaining) appends it in an order the run does not fix
topological_sort_nodes(ids, conns) ==
    LET prefix == KahnPrefix(ids, conns)
    IN {prefix \o p : p \in Perms(Range(ids) \ Range(prefix))}

(***************************************************************************)
(* Executors.  An outcome is [status, output, error]; the inline-script    *)
(* nodes' code is one of a few user functions.  The workflows of the model *)
(* hold start, end, python, typescript, foreach and endloop nodes; the     *)
(* condition, file, database and http executors are followed one           *)
(* invocation at a time further down; llm, embedding and viewer nodes are  *)
(* not part of the model.                                                  *)
(***************************************************************************)
Success(output) == [status |-> "success", output |-> output, error |-> None]
Failure(msg) == [status |-> "error", output |-> VNull, error |-> msg]

\* execute_python_code: run(input) of the node's code; every failure of the
\* user function is caught and becomes an error outcome
execute_python_code(code, input_data) ==
    CASE code.op = "identity" -> Success(input_data)            \* def run(x): return x
      [] code.op = "const" -> Success(code.ret)                 \* def run(x): return <literal>
      [] code.op = "div" ->                                     \* def run(x): return 10//x
           IF input_data.k = "int" /\ input_data.n # 0
           THEN Success(VInt(10 \div input_data.n))
           ELSE Failure("Python execution failed")

\* execute_typescript_code: the input is pasted into the script with json.dumps
\* and run(input) is awaited in a node subprocess; the user functions are the
\* ones of execute_python_code (`div` throws on a non-number and on 0).  Every
\* failure is caught and becomes an error outcome.
execute_typescript_code(code, input_data) ==
    IF ~JsonSerializable(input_data)
    THEN Failure("Execution failed")
    ELSE CASE code.op = "identity" -> Success(input_data)
           [] code.op = "const" -> Success(code.ret)
           [] code.op = "div" ->
                IF input_data.k = "int" /\ input_data.n # 0
                THEN Success(VInt(10 \div input_data.n))
                ELSE Failure("No output from TypeScript execution")

\* the node types whose executor suspends the calling coroutine (it awaits a
\* subprocess); execute_python_code is a plain function and runs in place
Awaited == {"typescript"}

\* execute_endloop_node
execute_endloop_node(input_data) ==
    IF IsDict(input_data)
    THEN LET Get(key) == IF key \in DOMAIN input_data.m THEN input_data.m[key] ELSE VList(<<>>)
             aggregated_outputs == Get("aggregated_outputs")
             results == Get("results")
         IN Success(VDict([results |-> results,
                           aggregated_outputs |-> aggregated_outputs,
                           items |-> Get("items"),
                           total |-> VInt(Len(results.xs)),
                           successful |-> VInt(Len(aggregated_outputs.xs)),
                           failed |-> VInt(Len(results.xs) - Len(aggregated_outputs.xs))]))
    ELSE Success(input_data)

(***************************************************************************)
(* execute_sub_workflow: the body of one foreach iteration.                *)
(***************************************************************************)
\* local_outputs[node_id] = output
Record(outputs, node_id, output) ==
    [n \in DOMAIN outputs \cup {node_id} |-> IF n = node_id THEN output ELSE outputs[n]]

\* a runner that always goes on from the running current_input
SubInput_Current(conns, node_id, local_outputs, current_input) == current_input

\* the input of a body node: the output of the first connection into it whose
\* source is in local_outputs, else the running current_input
SubInput(conns, node_id, local_outputs, current_input) ==
    LET hits == {i \in 1..Len(conns) :
                    conns[i].target = node_id /\ conns[i].source \in DOMAIN local_outputs}
    IN IF hits = {} THEN current_input
       ELSE local_outputs[conns[CHOOSE i \in hits : \A j \in hits : i <= j].source]

\* the dispatch table of the sub-workflow runner
SubDispatch(node, input_data) ==
    CASE node.type = "python" -> execute_python_code(node.code, input_data)
      [] node.type = "typescript" -> execute_typescript_code(node.code, input_data)
      [] node.type = "endloop" -> Success(input_data)
      [] OTHER -> Failure("Unknown node type in sub-workflow")

RECURSIVE CopyKeys(_, _, _)
\* for key in [...]: if key in input_data and key not in output: output[key] = input_data[key]
CopyKeys(keys, output, input_data) ==
    IF keys = <<>> THEN output
    ELSE CopyKeys(Tail(keys),
                  IF Head(keys) \in DOMAIN input_data.m /\ Head(keys) \notin DOMAIN output.m
                  THEN DictSet(output, Head(keys), input_data.m[Head(keys)])
                  ELSE output,
                  input_data)

\* the metadata carried from a body node's input to its output
PreserveMetadata(output, input_data) ==
    IF IsDict(output) /\ IsDict(input_data)
    THEN CopyKeys(<<"route", "action", "priority">>,
                  IF "_workflow_context" \in DOMAIN input_data.m
                  THEN DictSet(output, "_workflow_context", input_data.m["_workflow_context"])
                  ELSE output,
                  input_data)
    ELSE output

NodeExecution(node_id, status) == VDict([node_id |-> VStr(node_id), status |-> VStr(status)])

\* what a run of the sub-workflow loop ends with: the value it returns
\* ("finish"), or the position and the state it is suspended at ("await")
SubFinish(status, output, error, i, st) ==
    [kind |-> "finish", status |-> status, output |-> output, error |-> error,
     node_executions |-> st.node_executions, pos |-> i, st |-> st]
SubAwait(i, st) ==
    [kind |-> "await", status |-> None, output |-> VNull, error |-> None,
     node_executions |-> st.node_executions, pos |-> i, st |-> st]

RECURSIVE SubWorkflowLoop(_, _, _, _, _, _, _)
\* the for-loop over node_ids from position i on;
\* st = [local_outputs, current_input, node_executions].  `awaits` says what an
\* awaited executor does to the run: "inline" when no other coroutine can run
\* meanwhile (the executor is run in place), "suspend" when the run stops at
\* the next awaited executor, "answered" when the executor of node i has
\* answered and the run goes on from its result.
SubWorkflowLoop(node_ids, nodes, conns, starting_input, i, st, awaits) ==
    IF i > Len(node_ids)
    THEN SubFinish("success",
                   IF node_ids = <<>> THEN starting_input
                   ELSE IF node_ids[Len(node_ids)] \in DOMAIN st.local_outputs
                   THEN st.local_outputs[node_ids[Len(node_ids)]]
                   ELSE st.current_input,
                   None, i, st)
    ELSE LET node_id == node_ids[i]
             node == nodes[node_id]
             input_data == SubInput(conns, node_id, st.local_outputs, st.current_input)
             onwards == IF awaits = "inline" THEN "inline" ELSE "suspend"
         IN IF node.skipDuringExecution
            THEN SubWorkflowLoop(node_ids, nodes, conns, starting_input, i + 1,
                    [local_outputs |-> Record(st.local_outputs, node_id, input_data),
                     current_input |-> input_data,
                     node_executions |-> Append(st.node_executions,
                                                NodeExecution(node_id, "skipped"))],
                    onwards)
            ELSE IF node.type \in Awaited /\ awaits = "suspend"
            THEN SubAwait(i, st)
            ELSE LET result == SubDispatch(node, input_data)
                     output == PreserveMetadata(result.output, input_data)
                     executions == Append(st.node_executions,
                                          NodeExecution(node_id, result.status))
                 IN IF result.status = "error"
                    THEN SubFinish("error", VNull, result.error, i,
                                   [st EXCEPT !.node_executions = executions])
                    ELSE SubWorkflowLoop(node_ids, nodes, conns, starting_input, i + 1,
                            [local_outputs |-> Record(st.local_outputs, node_id, output),
                             current_input |-> output,
                             node_executions |-> executions],
                            onwards)

\* the state of the loop before its first node
SubStart(starting_input) ==
    [local_outputs |-> EmptyMap, current_input |-> starting_input, node_executions |-> <<>>]

execute_sub_workflow(node_ids, nodes, conns, starting_input) ==
    SubWorkflowLoop(node_ids, nodes, conns, starting_input, 1, SubStart(starting_input),
                    "inline")

(***************************************************************************)
(* execute_foreach_loop.  It returns an outcome, raises (Semaphore with a  *)
(* negative value, json.dumps or len of a value that has none) or never    *)
(* returns (a Semaphore of 0 admits no iteration).                         *)
(***************************************************************************)
\* the values len() accepts
Sized(v) == v.k \in {"str", "bytes", "list", "dict"}

\* `items` after the extraction from input_data, before the fallback
ExtractItems(config, input_data) ==
    IF IsList(input_data) THEN input_data
    ELSE IF HasKey(input_data, config.items_key) /\ IsList(input_data.m[config.items_key])
    THEN input_data.m[config.items_key]
    ELSE VList(<<>>)

\* `items` after the fallback to config.get('items', [])
ResolveItems(config, input_data) ==
    LET items == ExtractItems(config, input_data)
    IN IF ~Truthy(items) THEN config.items ELSE items

\* a seed that is the item as it is
IterationInput_Verbatim(item, input_data) == item

\* the seed input of one iteration
IterationInput(item, input_data) ==
    IF IsDict(item) /\ IsDict(input_data)
    THEN DictSet(item, "_workflow_context", input_data)
    ELSE item

\* the iteration outcome record built from what the sub-workflow returned
IterationRecord(item, result) ==
    VDict([item |-> item,
           output |-> result.output,
           status |-> VStr(result.status),
           error |-> IF result.error = None THEN VNull ELSE VStr(result.error),
           node_executions |-> VList(result.node_executions)])

\* execute_iteration, run without interleaving
execute_iteration(item, input_data, nodes_to_execute, nodes, conns) ==
    IterationRecord(item, execute_sub_workflow(nodes_to_execute, nodes, conns,
                                               IterationInput(item, input_data)))

\* the record of an item when the foreach has no downstream node
PassThroughRecord(item) ==
    VDict([item |-> item, output |-> item, status |-> VStr("success"), error |-> VNull])

IsSuccess(r) == r.m["status"] = VStr("success")

\* sum(1 for r in results if r.get('status') == 'success')
CountSuccessful(results) == Cardinality({i \in 1..Len(results) : IsSuccess(results[i])})

RECURSIVE AggregateOutputs(_)
\* the loop that fills aggregated_outputs
AggregateOutputs(results) ==
    IF results = <<>> THEN <<>>
    ELSE IF IsSuccess(Head(results)) /\ Head(results).m["output"] # VNull
    THEN <<Head(results).m["output"]>> \o AggregateOutputs(Tail(results))
    ELSE AggregateOutputs(Tail(results))

\* the output of a foreach that ran its iterations
ForeachOutput(results, items, endloop_node_id) ==
    LET successful == CountSuccessful(results)
        failed == Len(results) - successful
    IN IF endloop_node_id # None
       THEN VDict([results |-> VList(results),
                   total |-> VInt(Len(results)),
                   successful |-> VInt(successful),
                   failed |-> VInt(failed),
                   aggregated_outputs |-> VList(AggregateOutputs(results)),
                   items |-> items])
       ELSE VDict([results |-> VList(results),
                   total |-> VInt(Len(results)),
                   successful |-> VInt(successful),
                   failed |-> VInt(failed)])

\* the last endloop-typed id of the downstream list
EndloopOf(downstream, nodes) ==
    LET hits == {i \in 1..Len(downstream) : nodes[downstream[i]].type = "endloop"}
    IN IF hits = {} THEN None
       ELSE downstream[CHOOSE i \in hits : \A j \in hits : j <= i]

\* what execute_foreach_loop does: it returns an outcome, raises or hangs;
\* `iterations` keeps the iteration records the loop collected (`results`)
Returned(outcome, endloop_node_id) ==
    [kind |-> "return", status |-> outcome.status, output |-> outcome.output,
     error |-> outcome.error, endloop_node_id |-> endloop_node_id, iterations |-> <<>>]
Raised(msg) ==
    [kind |-> "raise", status |-> "error", output |-> VNull, error |-> msg,
     endloop_node_id |-> None, iterations |-> <<>>]
Hangs ==
    [kind |-> "hang", status |-> "error", output |-> VNull, error |-> None,
     endloop_node_id |-> None, iterations |-> <<>>]

\* a variant that lets a failed iteration fail the foreach
ForeachOutcome_FailsOnIterationError(results, items, endloop_node_id) ==
    IF CountSuccessful(results) < Len(results)
    THEN Returned(Failure("ForEach iteration failed"), endloop_node_id)
    ELSE Returned(Success(ForeachOutput(results, items, endloop_node_id)), endloop_node_id)

\* the outcome a foreach returns after its iterations
ForeachOutcome(results, items, endloop_node_id) ==
    Returned(Success(ForeachOutput(results, items, endloop_node_id)), endloop_node_id)

\* the nodes one iteration runs: the downstream list without its endloop
NodesToExecute(foreach_node_id, nodes, conns) ==
    LET downstream_node_ids == find_downstream_nodes(foreach_node_id, nodes, conns)
        sub_workflow_node_ids ==
            SeqFilter(downstream_node_ids,
                      {n \in Range(downstream_node_ids) : nodes[n].type # "endloop"})
    IN IF EndloopOf(downstream_node_ids, nodes) # None
       THEN sub_workflow_node_ids ELSE downstream_node_ids

\* the call goes on to its iterations
Iterate ==
    [kind |-> "iterate", status |-> None, output |-> VNull, error |-> None,
     endloop_node_id |-> None, iterations |-> <<>>]

\* lines 2142-2236: what execute_foreach_loop does before it iterates; it
\* returns, raises, or goes on to the iterations
ForeachPrologue(config, input_data, foreach_node_id, nodes, conns) ==
    LET extracted == ExtractItems(config, input_data)
        items == ResolveItems(config, input_data)
        downstream_node_ids == find_downstream_nodes(foreach_node_id, nodes, conns)
    IN IF input_data.k \in {"dict", "list"} /\ ~JsonSerializable(input_data)
       THEN Raised("Object of type bytes is not JSON serializable")
       ELSE IF ~Truthy(extracted) /\ ~Sized(items)
       THEN Raised("object has no len()")
       ELSE IF ~IsList(items)
       THEN Returned(Failure("ForEach node requires an array"), None)
       ELSE IF items.xs = <<>>
       THEN Returned(Success(VDict([results |-> VList(<<>>), total |-> VInt(0),
                                    successful |-> VInt(0), failed |-> VInt(0)])), None)
       ELSE IF downstream_node_ids = <<>>
       THEN Returned(Success(VDict([results |-> VList([i \in 1..Len(items.xs) |->
                                                          PassThroughRecord(items.xs[i])]),
                                    total |-> VInt(Len(items.xs)),
                                    successful |-> VInt(Len(items.xs)),
                                    failed |-> VInt(0)])), None)
       ELSE Iterate

\* execute_foreach_loop as one step: its iterations do not interleave with
\* anything the caller can see, so each is run in place
execute_foreach_loop(config, input_data, foreach_node_id, nodes, conns) ==
    LET early == ForeachPrologue(config, input_data, foreach_node_id, nodes, conns)
        items == ResolveItems(config, input_data)
        endloop_node_id ==
            EndloopOf(find_downstream_nodes(foreach_node_id, nodes, conns), nodes)
        nodes_to_execute == NodesToExecute(foreach_node_id, nodes, conns)
        results == [i \in 1..Len(items.xs) |->
                        execute_iteration(items.xs[i], input_data, nodes_to_execute,
                                          nodes, conns)]
    IN IF early.kind # "iterate"
       THEN early
       ELSE IF config.execution_mode = "parallel" /\ config.max_concurrency < 0
       THEN Raised("Semaphore initial value must be >= 0")
       ELSE IF config.execution_mode = "parallel" /\ config.max_concurrency = 0
       THEN Hangs
       ELSE [ForeachOutcome(results, items, endloop_node_id) EXCEPT !.iterations = results]

(***************************************************************************)
(* run_workflow: input resolution and dispatch of the top-level scheduler. *)
(***************************************************************************)
\* a variant that finds no recorded predecessor
PotentialSources_Unrecorded(node_id, conns, outputs) == <<>>

\* potential_sources: the sources of the connections into node_id, in
\* connection order, whose output is recorded
PotentialSources(node_id, conns, outputs) ==
    LET F[i \in 0..Len(conns)] ==
            IF i = 0 THEN <<>>
            ELSE IF conns[i].target = node_id /\ conns[i].source \in DOMAIN outputs
            THEN Append(F[i - 1], conns[i].source)
            ELSE F[i - 1]
    IN F[Len(conns)]

\* input_data as taken from the potential sources
ChosenInput(node_id, node_type, conns, outputs) ==
    LET potential_sources == PotentialSources(node_id, conns, outputs)
        with_items == {i \in 1..Len(potential_sources) :
                          HasKey(outputs[potential_sources[i]], "items")}
    IN IF potential_sources = <<>> THEN EmptyDict
       ELSE IF Len(potential_sources) > 1 /\ node_type = "foreach" /\ with_items # {}
       THEN outputs[potential_sources[CHOOSE i \in with_items :
                                         \A j \in with_items : i <= j]]
       ELSE outputs[potential_sources[1]]

\* input_data of a top-level node: `if not input_data: input_data = {}`
ResolveInput(node_id, node_type, conns, outputs) ==
    LET chosen == ChosenInput(node_id, node_type, conns, outputs)
    IN IF ~Truthy(chosen) THEN EmptyDict ELSE chosen

\* the branches of the dispatch other than foreach
Dispatch(node_id, node, input_data, outputs) ==
    CASE node.type = "start" ->
            Success(VDict([message |-> VStr("Workflow started")]))
      [] node.type = "end" -> Success(input_data)
      [] node.type = "python" -> execute_python_code(node.code, input_data)
      [] node.type = "typescript" -> execute_typescript_code(node.code, input_data)
      [] node.type = "endloop" ->
            IF node_id \in DOMAIN outputs THEN Success(outputs[node_id])
            ELSE Failure("EndLoop node must be connected from a ForEach loop")
      [] OTHER -> Failure("Unknown node type")

\* nodes_to_skip: the union of the downstream lists of all foreach nodes
MaskedSet(ids, nodes, conns) ==
    UNION {Range(find_downstream_nodes(f, nodes, conns)) :
              f \in {n \in Range(ids) : nodes[n].type = "foreach"}}

(***************************************************************************)
(* The workflows a request can carry.  A node is [type, code, config,      *)
(* skipDuringExecution]; a connection is [source, target].                 *)
(***************************************************************************)
DefaultConcurrency == 5
DefaultCode == [op |-> "identity"]
DefaultConfig ==
    [execution_mode |-> "serial", max_concurrency |-> DefaultConcurrency,
     items |-> VList(<<>>), items_key |-> "items"]
Node(type) ==
    [type |-> type, code |-> DefaultCode, config |-> DefaultConfig,
     skipDuringExecution |-> FALSE]
Python(code) == [Node("python") EXCEPT !.code = code]
Foreach(mode, concurrency, items) ==
    [Node("foreach") EXCEPT !.config = [execution_mode |-> mode, max_concurrency |-> concurrency,
                                        items |-> items, items_key |-> "items"]]
Skipped(node) == [node EXCEPT !.skipDuringExecution = TRUE]
Conn(s, t) == [source |-> s, target |-> t]

\* sequences over S of length at most n
SeqsUpTo(S, n) == UNION {[1..m -> S] : m \in 0..n}

\* the lists of items of the generated workflows
ItemLists == {VList(xs) : xs \in SeqsUpTo({VInt(0), VInt(1)}, MaxItems)}

\* graph workflows: three nodes of any kind, any connection list
GraphIds == <<"n1", "n2", "n3">>
GraphKinds ==
    {Node("start"), Node("end"), Node("endloop"), Python([op |-> "div"]),
     Skipped(Python([op |-> "div"])),
     Foreach("serial", DefaultConcurrency, VList(<<VInt(1), VInt(0)>>))}
GraphEdges == {Conn(s, t) : s, t \in Range(GraphIds)} \ {Conn(n, n) : n \in Range(GraphIds)}
GraphWorkflows ==
    {[ids |-> GraphIds, nodes |-> nd, conns |-> cd] :
        nd \in [Range(GraphIds) -> GraphKinds], cd \in SeqsUpTo(GraphEdges, MaxConns)}

\* loop workflows: producer -> foreach -> body -> tail, over the producer's
\* value, the foreach's configuration and the body's code
LoopIds == <<"src", "loop", "body", "tail">>
Producers ==
    {Node("start"), Python([op |-> "const", ret |-> VInt(1)]),
     Python([op |-> "const", ret |-> VList(<<VBytes>>)]),
     Python([op |-> "const", ret |-> VDict([items |-> VInt(1)])])}
    \cup {Python([op |-> "const", ret |-> l]) : l \in ItemLists}
    \cup {Python([op |-> "const", ret |-> VDict([items |-> l])]) : l \in ItemLists}
ForeachConfigs ==
    {Foreach(m[1], m[2], i) :
        m \in {<<"serial", DefaultConcurrency>>, <<"parallel", -1>>, <<"parallel", 0>>,
               <<"parallel", 2>>},
        i \in {VList(<<>>), VList(<<VInt(1), VInt(0)>>), VStr("abc"), VNull}}
Bodies ==
    {Python([op |-> "identity"]), Python([op |-> "div"]),
     Python([op |-> "const", ret |-> VNull]), Skipped(Python([op |-> "div"]))}
Tails == {Node("endloop"), Skipped(Node("endloop")), Node("end"), Python([op |-> "identity"])}
LoopWorkflows ==
    {[ids |-> LoopIds,
      nodes |-> [src |-> p, loop |-> f, body |-> b, tail |-> t],
      conns |-> <<Conn("src", "loop"), Conn("loop", "body"), Conn("body", "tail")>>] :
        p \in Producers, f \in ForeachConfigs, b \in Bodies, t \in Tails}

\* pipe workflows: two producers into one consumer, over the value the first
\* producer returns and the kind of the consumer
PipeIds == <<"p", "q", "r">>
PipeValues == {VNull, VInt(0), VInt(1), VStr(""), VList(<<>>), VDict([items |-> VInt(1)])}
PipeConsumers ==
    {Python([op |-> "identity"]), Node("typescript"), Node("end"),
     Skipped(Python([op |-> "div"]))}
PipeWorkflows ==
    {[ids |-> PipeIds,
      nodes |-> [p |-> Python([op |-> "const", ret |-> v]),
                 q |-> Python([op |-> "const", ret |-> VInt(1)]),
                 r |-> c],
      conns |-> <<Conn("p", "r"), Conn("q", "r")>>] :
        v \in PipeValues, c \in PipeConsumers}

\* join workflows: two producers into one foreach, over the values the two
\* producers return
JoinIds == <<"p", "q", "loop">>
JoinValues ==
    {VNull, VInt(0), VList(<<VInt(1)>>), EmptyDict, VDict([other |-> VInt(1)]),
     VDict([items |-> VList(<<VInt(1)>>)]), VDict([items |-> VList(<<VInt(0), VInt(1)>>)])}
JoinWorkflows ==
    {[ids |-> JoinIds,
      nodes |-> [p |-> Python([op |-> "const", ret |-> v]),
                 q |-> Python([op |-> "const", ret |-> w]),
                 loop |-> Foreach("serial", DefaultConcurrency, VList(<<VInt(1), VInt(0)>>))],
      conns |-> <<Conn("p", "loop"), Conn("q", "loop")>>] :
        v \in JoinValues, w \in JoinValues}

\* chain workflows: foreach -> body -> tail -> next, over the items of the
\* foreach's configuration and the kinds of the three nodes behind it
ChainIds == <<"loop", "body", "tail", "next">>
ChainWorkflows ==
    {[ids |-> ChainIds,
      nodes |-> [loop |-> Foreach("serial", DefaultConcurrency, i), body |-> b,
                 tail |-> t, next |-> x],
      conns |-> <<Conn("loop", "body"), Conn("body", "tail"), Conn("tail", "next")>>] :
        i \in {VList(<<>>), VList(<<VInt(1), VInt(0)>>)},
        b \in {Python([op |-> "identity"]), Python([op |-> "div"])},
        t \in {Node("endloop"), Skipped(Node("endloop"))},
        x \in {Python([op |-> "identity"]), Node("typescript"), Node("end")}}

\* nested workflows: outer -> a -> inner -> b, two foreach nodes, over what the
\* node between them returns and the items of the inner one's configuration
NestIds == <<"outer", "a", "inner", "b">>
NestWorkflows ==
    {[ids |-> NestIds,
      nodes |-> [outer |-> Foreach("serial", DefaultConcurrency, VList(<<VInt(1), VInt(0)>>)),
                 a |-> x,
                 inner |-> Foreach("serial", DefaultConcurrency, i),
                 b |-> Python([op |-> "identity"])],
      conns |-> <<Conn("outer", "a"), Conn("a", "inner"), Conn("inner", "b")>>] :
        x \in {Python([op |-> "identity"]), Python([op |-> "div"]),
               Python([op |-> "const", ret |-> VList(<<VInt(1)>>)])},
        i \in {VList(<<>>), VList(<<VInt(0)>>)}}

Workflows ==
    GraphWorkflows \cup LoopWorkflows \cup PipeWorkflows \cup JoinWorkflows \cup ChainWorkflows
        \cup NestWorkflows

(***************************************************************************)
(* State of one /run request.                                              *)
(***************************************************************************)
VARIABLES
    node_ids,           \* the keys of nodes_data, in the order of the map
    nodes_data,         \* node id -> node
    connections_data,   \* the connections, in the order of the map
    pc,                 \* "start", "loop", "respond", "done", "hung"
    execution_order,    \* the list topological_sort_nodes returned
    nodes_to_skip,      \* the masked set
    cursor,             \* position of the for-loop in execution_order
    node_results,       \* the trace built so far
    node_outputs,       \* node id -> recorded output
    response,           \* the value run_workflow returns
    output_writes,      \* node id -> number of assignments to node_outputs[id]
    calls               \* the executor invocations of the top-level scheduler: the
                        \* node, who invoked it (the sweep or a foreach's handoff),
                        \* the source output chosen, the input passed, the outcome
                        \* and, of a foreach, the iteration records it collected

\* State of one execute_foreach_loop call, seen at the steps of the event loop.
VARIABLES
    loop_call,          \* the arguments of the call
    lpc,                \* "idle", "call", "iterating", "done", "raised"
    iteration_tasks,    \* iteration index -> the coroutine of that iteration
    semaphore,          \* the asyncio.Semaphore of the parallel mode
    events,             \* what the iterations did, in the order it happened
    loop_result         \* what the call returned or raised

\* State of one executor invocation, followed on its own; of one
\* execute_sub_workflow call the position in the list ("nodes", "done") and
\* the running state with the steps taken.
VARIABLES
    exec_call,          \* the executor and its arguments (config, input_data)
    epc,                \* "idle", "call", "done"
    exec_result         \* what the executor returned and what it did outside

run_vars == <<node_ids, nodes_data, connections_data, pc, execution_order, nodes_to_skip,
              cursor, node_results, node_outputs, response, output_writes, calls>>
loop_vars == <<loop_call, lpc, iteration_tasks, semaphore, events, loop_result>>
exec_vars == <<exec_call, epc, exec_result>>
vars == <<run_vars, loop_vars, exec_vars>>
request == <<node_ids, nodes_data, connections_data>>

\* the overall error: the failing node (None in the outer except, which has
\* none) and the message
OverallError(node_id, message) == [node |-> node_id, message |-> message]
NoError == OverallError(None, None)
NoResponse == [status |-> None, nodes |-> <<>>, error |-> NoError]

\* no execute_foreach_loop call is followed step by step
NoCall ==
    [config |-> DefaultConfig, input_data |-> VNull, foreach_node_id |-> None,
     nodes |-> EmptyMap, conns |-> <<>>]
NoSemaphore == [made |-> FALSE, value |-> 0, waiters |-> <<>>]
NoResult ==
    [kind |-> None, status |-> None, output |-> VNull, error |-> None,
     endloop_node_id |-> None, iterations |-> <<>>]
LoopIdle ==
    /\ loop_call = NoCall
    /\ lpc = "idle"
    /\ iteration_tasks = <<>>
    /\ semaphore = NoSemaphore
    /\ events = <<>>
    /\ loop_result = NoResult

\* no executor invocation is followed on its own
ExecIdle ==
    /\ exec_call = [executor |-> None]
    /\ epc = "idle"
    /\ exec_result = [status |-> None]

Init ==
    /\ \E w \in Workflows :
          /\ node_ids = w.ids
          /\ nodes_data = w.nodes
          /\ connections_data = w.conns
    /\ pc = "start"
    /\ execution_order = <<>>
    /\ nodes_to_skip = {}
    /\ cursor = 0
    /\ node_results = <<>>
    /\ node_outputs = EmptyMap
    /\ response = NoResponse
    /\ output_writes = [n \in Range(node_ids) |-> 0]
    /\ calls = <<>>
    /\ LoopIdle
    /\ ExecIdle

\* lines 2453-2466: the order and the masked set
Prepare ==
    /\ pc = "start"
    /\ \E order \in topological_sort_nodes(node_ids, connections_data) :
          execution_order' = order
    /\ nodes_to_skip' = MaskedSet(node_ids, nodes_data, connections_data)
    /\ cursor' = 1
    /\ pc' = "loop"
    /\ UNCHANGED <<request, node_results, node_outputs, response, output_writes, calls>>
    /\ UNCHANGED <<loop_vars, exec_vars>>

InLoop == pc = "loop" /\ cursor <= Len(execution_order)
CurrentId == execution_order[cursor]
CurrentNode == nodes_data[CurrentId]
CurrentChosen == ChosenInput(CurrentId, CurrentNode.type, connections_data, node_outputs)
CurrentInput == ResolveInput(CurrentId, CurrentNode.type, connections_data, node_outputs)

\* a variant that masks nothing
IsMasked_Never(node_id) == FALSE

\* the test `node_id in nodes_to_skip`
IsMasked(node_id) == node_id \in nodes_to_skip

TraceEntry(node_id, outcome) ==
    [id |-> node_id, status |-> outcome.status, output |-> outcome.output,
     error |-> outcome.error]
Call(node_id, executor, by, chosen, input_data, outcome) ==
    [node |-> node_id, executor |-> executor, by |-> by, chosen |-> chosen,
     input |-> input_data,
     kind |-> outcome.kind, status |-> outcome.status, output |-> outcome.output,
     error |-> outcome.error, iterations |-> outcome.iterations]
Normal(outcome) ==
    [kind |-> "return", status |-> outcome.status, output |-> outcome.output,
     error |-> outcome.error, iterations |-> <<>>]

\* node_results.append(node_result); node_outputs[node_id] = result['output'];
\* break on an error status
StoreResult(node_id, outcome, outputs, writes) ==
    /\ node_results' = Append(node_results, TraceEntry(node_id, outcome))
    /\ node_outputs' = Record(outputs, node_id, outcome.output)
    /\ output_writes' = [writes EXCEPT ![node_id] = @ + 1]
    /\ IF outcome.status = "error"
       THEN pc' = "respond" /\ cursor' = cursor
       ELSE pc' = pc /\ cursor' = cursor + 1

\* a masked node is passed over
SkipMasked ==
    /\ InLoop
    /\ IsMasked(CurrentId)
    /\ cursor' = cursor + 1
    /\ UNCHANGED <<request, pc, execution_order, nodes_to_skip, node_results, node_outputs,
                   response, output_writes, calls>>
    /\ UNCHANGED <<loop_vars, exec_vars>>

\* a node with skipDuringExecution forwards its input
PassThrough ==
    /\ InLoop
    /\ ~IsMasked(CurrentId)
    /\ CurrentNode.skipDuringExecution
    /\ StoreResult(CurrentId, Success(CurrentInput), node_outputs, output_writes)
    /\ UNCHANGED <<request, execution_order, nodes_to_skip, response, calls>>
    /\ UNCHANGED <<loop_vars, exec_vars>>

\* a node of any type but foreach is dispatched and its result stored
ExecNode ==
    /\ InLoop
    /\ ~IsMasked(CurrentId)
    /\ ~CurrentNode.skipDuringExecution
    /\ CurrentNode.type # "foreach"
    /\ LET outcome == Dispatch(CurrentId, CurrentNode, CurrentInput, node_outputs)
       IN /\ StoreResult(CurrentId, outcome, node_outputs, output_writes)
          /\ calls' = Append(calls, Call(CurrentId, CurrentNode.type, "sweep", CurrentChosen,
                                         CurrentInput, Normal(outcome)))
    /\ UNCHANGED <<request, execution_order, nodes_to_skip, response>>
    /\ UNCHANGED <<loop_vars, exec_vars>>

\* the test that starts the foreach handoff
HasHandoff(result) == result.endloop_node_id # None /\ result.endloop_node_id \in DOMAIN nodes_data

\* a foreach node: execute_foreach_loop, then the handoff to its endloop
ExecForeach ==
    /\ InLoop
    /\ ~IsMasked(CurrentId)
    /\ ~CurrentNode.skipDuringExecution
    /\ CurrentNode.type = "foreach"
    /\ LET result == execute_foreach_loop(CurrentNode.config, CurrentInput, CurrentId,
                                          nodes_data, connections_data)
           foreach_call == Call(CurrentId, "foreach", "sweep", CurrentChosen, CurrentInput, result)
           endloop_result == execute_endloop_node(result.output)
           endloop_call == Call(result.endloop_node_id, "endloop", CurrentId, result.output,
                                result.output, Normal(endloop_result))
       IN CASE result.kind = "raise" ->
                 \* the outer except of run_workflow
                 /\ response' = [status |-> "error", nodes |-> <<>>,
                                 error |-> OverallError(None, result.error)]
                 /\ pc' = "done"
                 /\ calls' = Append(calls, foreach_call)
                 /\ UNCHANGED <<cursor, node_results, node_outputs, output_writes>>
            [] result.kind = "hang" ->
                 /\ pc' = "hung"
                 /\ calls' = Append(calls, foreach_call)
                 /\ UNCHANGED <<cursor, node_results, node_outputs, output_writes, response>>
            [] result.kind = "return" /\ HasHandoff(result) ->
                 /\ StoreResult(CurrentId, [result EXCEPT !.output = endloop_result.output],
                                Record(node_outputs, result.endloop_node_id,
                                       endloop_result.output),
                                [output_writes EXCEPT ![result.endloop_node_id] = @ + 1])
                 /\ calls' = calls \o <<foreach_call, endloop_call>>
                 /\ UNCHANGED response
            [] OTHER ->
                 /\ StoreResult(CurrentId, result, node_outputs, output_writes)
                 /\ calls' = Append(calls, foreach_call)
                 /\ UNCHANGED response
    /\ UNCHANGED <<request, execution_order, nodes_to_skip>>
    /\ UNCHANGED <<loop_vars, exec_vars>>

\* lines 2688-2703: overall_status and overall_error from the first error entry
BuildResponse(results) ==
    LET errors == {i \in 1..Len(results) : results[i].status = "error"}
        first == results[CHOOSE i \in errors : \A j \in errors : i <= j]
    IN IF errors = {}
       THEN [status |-> "success", nodes |-> results, error |-> NoError]
       ELSE [status |-> "error", nodes |-> results,
             error |-> OverallError(first.id, first.error)]

\* the loop has ended (exhausted or broken): the response is built
Respond ==
    /\ \/ pc = "respond"
       \/ pc = "loop" /\ cursor > Len(execution_order)
    /\ response' = BuildResponse(node_results)
    /\ pc' = "done"
    /\ UNCHANGED <<request, execution_order, nodes_to_skip, cursor, node_results,
                   node_outputs, output_writes, calls>>
    /\ UNCHANGED <<loop_vars, exec_vars>>

Next == Prepare \/ SkipMasked \/ PassThrough \/ ExecNode \/ ExecForeach \/ Respond

Spec == Init /\ [][Next]_vars

(***************************************************************************)
(* One execute_foreach_loop call at the steps of the asyncio event loop.   *)
(* A coroutine runs without interruption until it awaits something that is *)
(* not ready: the executor of an awaited node type, or a semaphore without *)
(* a free slot.  In parallel mode gather() makes one task per item; the    *)
(* tasks take their first step in the order they were made, before any     *)
(* awaited executor answers.  The semaphore wakes its waiters first come,  *)
(* first served.                                                           *)
(***************************************************************************)
\* most items of a call that is followed step by step
MaxTasks == 3

\* the calls: loop -> a -> b -> tail, over the mode, the input and the body
CallItems == {VList(xs) : xs \in SeqsUpTo({VInt(0), VInt(1)}, MaxTasks)}
CallConfigs ==
    {Foreach(m[1], m[2], VList(<<>>)).config :
        m \in {<<"serial", DefaultConcurrency>>, <<"parallel", -1>>, <<"parallel", 0>>,
               <<"parallel", 1>>, <<"parallel", 2>>, <<"parallel", DefaultConcurrency>>}}
CallBodies ==
    {[loop |-> Node("foreach"), a |-> a, b |-> b, tail |-> Node("endloop")] :
        a \in {[Node("typescript") EXCEPT !.code = [op |-> "div"]], Python([op |-> "div"])},
        b \in {Node("typescript"), Skipped(Node("typescript"))}}
\* the calls over items that are mappings, given as the input or under its
\* `items` key, through a body that returns its input
ContextItems ==
    VList(<<VDict([v |-> VInt(1)]), VInt(1), VDict([_workflow_context |-> VStr("own")])>>)
ContextCalls ==
    {[config |-> Foreach(m, 2, VList(<<>>)).config, input_data |-> i,
      foreach_node_id |-> "loop",
      nodes |-> [loop |-> Node("foreach"), a |-> Python([op |-> "identity"]),
                 b |-> Node("typescript"), tail |-> Node("endloop")],
      conns |-> <<Conn("loop", "a"), Conn("a", "b"), Conn("b", "tail")>>] :
        m \in {"serial", "parallel"},
        i \in {ContextItems, VDict([items |-> ContextItems])}}
LoopCalls ==
    {[config |-> c, input_data |-> i, foreach_node_id |-> "loop", nodes |-> nd,
      conns |-> <<Conn("loop", "a"), Conn("a", "b"), Conn("b", "tail")>>] :
        c \in CallConfigs, i \in CallItems, nd \in CallBodies}
    \cup ContextCalls

\* the run variables while a call is followed on its own
RunIdle ==
    /\ node_ids = <<>>
    /\ nodes_data = EmptyMap
    /\ connections_data = <<>>
    /\ pc = "idle"
    /\ execution_order = <<>>
    /\ nodes_to_skip = {}
    /\ cursor = 0
    /\ node_results = <<>>
    /\ node_outputs = EmptyMap
    /\ response = NoResponse
    /\ output_writes = EmptyMap
    /\ calls = <<>>

LoopInit ==
    /\ RunIdle
    /\ loop_call \in LoopCalls
    /\ lpc = "call"
    /\ iteration_tasks = <<>>
    /\ semaphore = NoSemaphore
    /\ events = <<>>
    /\ loop_result = NoResult
    /\ ExecIdle

\* the locals of the call
Mode == loop_call.config.execution_mode
Items == ResolveItems(loop_call.config, loop_call.input_data)
CallNodes == NodesToExecute(loop_call.foreach_node_id, loop_call.nodes, loop_call.conns)
CallEndloop ==
    EndloopOf(find_downstream_nodes(loop_call.foreach_node_id, loop_call.nodes,
                                    loop_call.conns), loop_call.nodes)

\* a task: "new" (made, not yet run), "waiting" (in the semaphore's queue),
\* "admitted" (woken with a slot), "awaiting" (inside an awaited executor at
\* node `pos`), "done" (execute_iteration returned `record`)
NewTask(item) ==
    [state |-> "new", pos |-> 1, st |-> SubStart(IterationInput(item, loop_call.input_data)),
     record |-> VNull]

\* iterations that go on from the locals of the first iteration
RunIteration_SharedLocals(k, awaits) ==
    SubWorkflowLoop(CallNodes, loop_call.nodes, loop_call.conns,
                    IterationInput(Items.xs[k], loop_call.input_data),
                    iteration_tasks[k].pos, iteration_tasks[1].st, awaits)

\* execute_iteration of item k from where task k stands to its next await
RunIteration(k, awaits) ==
    SubWorkflowLoop(CallNodes, loop_call.nodes, loop_call.conns,
                    IterationInput(Items.xs[k], loop_call.input_data),
                    iteration_tasks[k].pos, iteration_tasks[k].st, awaits)

\* the task after the run
TaskAfter(k, run) ==
    IF run.kind = "await"
    THEN [state |-> "awaiting", pos |-> run.pos, st |-> run.st, record |-> VNull]
    ELSE [state |-> "done", pos |-> run.pos, st |-> run.st,
          record |-> IterationRecord(Items.xs[k], run)]

\* what the run adds to the log: the node executions it appended, then the
\* executor it is suspended in or the end of the iteration
Event(k, node_id, ev) == [it |-> k, node |-> node_id, ev |-> ev]
EventsOf(k, run) ==
    LET before == Len(iteration_tasks[k].st.node_executions)
        added == [j \in 1..(Len(run.node_executions) - before) |->
                     Event(k, run.node_executions[before + j].m["node_id"].s,
                           run.node_executions[before + j].m["status"].s)]
    IN added \o <<IF run.kind = "await" THEN Event(k, CallNodes[run.pos], "await")
                  ELSE Event(k, None, "finish")>>

\* Semaphore.acquire without waiting: a slot is free
CanAcquire_Always(sem) == TRUE
CanAcquire(sem) == sem.value > 0

\* the waiter release() wakes
NextWaiter_Last(waiters) == waiters[Len(waiters)]
NextWaiter(waiters) == Head(waiters)

\* `async with semaphore` gives the slot back however the block is left
ReleasesSlot_OnSuccess(run) == run.status = "success"
ReleasesSlot(run) == TRUE

\* Semaphore.release: the slot goes to the waiter woken, or back to the value;
\* the result is the tasks and the semaphore after it
Release(tasks, sem) ==
    IF sem.waiters # <<>>
    THEN LET w == NextWaiter(sem.waiters)
         IN [tasks |-> [tasks EXCEPT ![w].state = "admitted"],
             sem |-> [sem EXCEPT !.waiters = SeqFilter(@, Range(@) \ {w})]]
    ELSE [tasks |-> tasks, sem |-> [sem EXCEPT !.value = @ + 1]]

\* task k has run up to `run` (the actions bind the run once, as a value):
\* its new state, the slot it gives back and the log
Settle(k, run, sem) ==
    LET tasks == [iteration_tasks EXCEPT ![k] = TaskAfter(k, run)]
        after == IF run.kind = "finish" /\ sem.made /\ ReleasesSlot(run)
                 THEN Release(tasks, sem)
                 ELSE [tasks |-> tasks, sem |-> sem]
    IN /\ iteration_tasks' = after.tasks
       /\ semaphore' = after.sem
       /\ events' = events \o EventsOf(k, run)

\* lines 2142-2294: the prologue; then the tasks and the semaphore are made
LoopCall ==
    /\ lpc = "call"
    /\ LET early == ForeachPrologue(loop_call.config, loop_call.input_data,
                                    loop_call.foreach_node_id, loop_call.nodes,
                                    loop_call.conns)
           max_concurrency == loop_call.config.max_concurrency
       IN IF early.kind # "iterate"
          THEN /\ loop_result' = early
               /\ lpc' = IF early.kind = "raise" THEN "raised" ELSE "done"
               /\ UNCHANGED <<iteration_tasks, semaphore>>
          ELSE IF Mode = "parallel" /\ max_concurrency < 0
          THEN /\ loop_result' = Raised("Semaphore initial value must be >= 0")
               /\ lpc' = "raised"
               /\ UNCHANGED <<iteration_tasks, semaphore>>
          ELSE /\ iteration_tasks' = [k \in 1..Len(Items.xs) |-> NewTask(Items.xs[k])]
               /\ semaphore' = IF Mode = "parallel"
                               THEN [made |-> TRUE, value |-> max_concurrency,
                                     waiters |-> <<>>]
                               ELSE NoSemaphore
               /\ lpc' = "iterating"
               /\ UNCHANGED loop_result
    /\ UNCHANGED <<loop_call, events>>
    /\ UNCHANGED <<run_vars, exec_vars>>

\* the serial for-loop takes item k when every earlier iteration has returned
SerialTurn_Eager(tasks, k) == TRUE
SerialTurn(tasks, k) == \A j \in 1..(k - 1) : tasks[j].state = "done"

\* serial mode: `result = await execute_iteration(item, i)` up to its first await
SerialIteration(k) ==
    /\ k \in DOMAIN iteration_tasks
    /\ lpc = "iterating" /\ Mode # "parallel"
    /\ iteration_tasks[k].state = "new"
    /\ SerialTurn(iteration_tasks, k)
    /\ \E run \in {RunIteration(k, "suspend")} : Settle(k, run, semaphore)
    /\ UNCHANGED <<loop_call, lpc, loop_result>>
    /\ UNCHANGED <<run_vars, exec_vars>>

\* parallel mode: the first step of task k, `async with semaphore`: it takes a
\* slot and runs execute_iteration up to its first await, or joins the waiters
FirstStep(k) ==
    /\ k \in DOMAIN iteration_tasks
    /\ lpc = "iterating" /\ Mode = "parallel"
    /\ iteration_tasks[k].state = "new"
    /\ \A j \in 1..(k - 1) : iteration_tasks[j].state # "new"
    /\ IF CanAcquire(semaphore)
       THEN \E run \in {RunIteration(k, "suspend")} : Settle(k, run, [semaphore EXCEPT !.value = @ - 1])
       ELSE /\ iteration_tasks' = [iteration_tasks EXCEPT ![k].state = "waiting"]
            /\ semaphore' = [semaphore EXCEPT !.waiters = Append(@, k)]
            /\ UNCHANGED events
    /\ UNCHANGED <<loop_call, lpc, loop_result>>
    /\ UNCHANGED <<run_vars, exec_vars>>

\* a woken waiter enters the block and runs execute_iteration up to its first await
Admitted(k) ==
    /\ k \in DOMAIN iteration_tasks
    /\ lpc = "iterating"
    /\ iteration_tasks[k].state = "admitted"
    /\ \E run \in {RunIteration(k, "suspend")} : Settle(k, run, semaphore)
    /\ UNCHANGED <<loop_call, lpc, loop_result>>
    /\ UNCHANGED <<run_vars, exec_vars>>

\* the awaited executor of task k answers: the iteration runs on to its next
\* await or to its end.  In parallel mode every task has taken its first step
\* by then.
Answered(k) ==
    /\ k \in DOMAIN iteration_tasks
    /\ lpc = "iterating"
    /\ iteration_tasks[k].state = "awaiting"
    /\ Mode = "parallel" => \A j \in DOMAIN iteration_tasks : iteration_tasks[j].state # "new"
    /\ \E run \in {RunIteration(k, "answered")} : Settle(k, run, semaphore)
    /\ UNCHANGED <<loop_call, lpc, loop_result>>
    /\ UNCHANGED <<run_vars, exec_vars>>

\* the iterations in the order they returned
FinishOrder(log) ==
    LET F[i \in 0..Len(log)] ==
            IF i = 0 THEN <<>>
            ELSE IF log[i].ev = "finish" THEN Append(F[i - 1], log[i].it)
            ELSE F[i - 1]
    IN F[Len(log)]

\* the order of `results`: gather() returns the results in the order of its
\* arguments
GatherOrder_AsCompleted(n, finished) == finished
GatherOrder(n, finished) == [k \in 1..n |-> k]

\* `results`: gathered in parallel mode, appended as each iteration returns in
\* serial mode
CollectResults(tasks, log) ==
    LET order == IF Mode = "parallel" THEN GatherOrder(Len(tasks), FinishOrder(log))
                 ELSE FinishOrder(log)
    IN [k \in 1..Len(order) |-> tasks[order[k]].record]

\* lines 2295-2354: every iteration has returned; the results are aggregated
\* and the call returns
Aggregate ==
    /\ lpc = "iterating"
    /\ \A k \in DOMAIN iteration_tasks : iteration_tasks[k].state = "done"
    /\ LET results == CollectResults(iteration_tasks, events)
       IN loop_result' = [ForeachOutcome(results, Items, CallEndloop)
                            EXCEPT !.iterations = results]
    /\ lpc' = "done"
    /\ UNCHANGED <<loop_call, iteration_tasks, semaphore, events>>
    /\ UNCHANGED <<run_vars, exec_vars>>

LoopNext ==
    \/ LoopCall
    \/ \E k \in DOMAIN iteration_tasks : SerialIteration(k)
    \/ \E k \in DOMAIN iteration_tasks : FirstStep(k)
    \/ \E k \in DOMAIN iteration_tasks : Admitted(k)
    \/ \E k \in DOMAIN iteration_tasks : Answered(k)
    \/ Aggregate

LoopSpec == LoopInit /\ [][LoopNext]_vars

(***************************************************************************)
(* The executors of the node types that are not run as code of their own   *)
(* process: condition, http, file, database.  Texts whose characters the   *)
(* executors look at are looked up in tables over the texts of the model.  *)
(***************************************************************************)
\* dict.get(key, default) of a configuration
ConfigGet(config, key, default) == IF key \in DOMAIN config THEN config[key] ELSE default

\* {**d, **e}: d.update(e)
DictUpdate(d, e) ==
    VDict([x \in DOMAIN d.m \cup DOMAIN e.m |-> IF x \in DOMAIN e.m THEN e.m[x] ELSE d.m[x]])

\* the texts the condition executor compares, in the order Python gives them
CondStrings == <<"", "70", "80", "hi", "high", "low">>
\* s.isdigit() and int(s)
IsDigit(s) == s \in {"70", "80"}
ToInt(s) == CASE s = "70" -> 70 [] s = "80" -> 80
\* str(v) of a number or a text
ToStr(v) == IF v.k = "str" THEN v.s ELSE CASE v.n = 70 -> "70" [] v.n = 80 -> "80"
\* needle in hay
Substring(needle, hay) ==
    \/ needle = "" \/ needle = hay
    \/ needle = "hi" /\ hay = "high"
\* a < b of two values: numbers by size, texts by their order; any other pair
\* raises TypeError
Comparable(a, b) == a.k = b.k /\ a.k \in {"int", "str"}
Less(a, b) ==
    IF a.k = "int" THEN a.n < b.n
    ELSE IndexOf(CondStrings, a.s) < IndexOf(CondStrings, b.s)

RECURSIVE WalkPath(_, _)
\* the loop over the parts of a dotted field path
WalkPath(current, parts) ==
    IF parts = <<>> THEN current
    ELSE IF IsDict(current)
    THEN WalkPath(IF Head(parts) \in DOMAIN current.m THEN current.m[Head(parts)] ELSE VNull,
                  Tail(parts))
    ELSE VNull

\* evaluate_condition; `field` is held as the list of its parts between dots
evaluate_condition(condition_config, data) ==
    LET field == ConfigGet(condition_config, "field", <<"">>)
        operator == ConfigGet(condition_config, "operator", "==")
        given == ConfigGet(condition_config, "value", VStr(""))
        field_value == IF IsDict(data) THEN WalkPath(data, field) ELSE data
        value == IF given.k = "str" /\ IsDigit(given.s) THEN VInt(ToInt(given.s)) ELSE given
    IN IF field_value = VNull
       THEN operator = "!=" /\ given # VNull
       ELSE CASE operator = "==" -> field_value = value
              [] operator = "!=" -> field_value # value
              [] operator = ">" -> Comparable(field_value, value) /\ Less(value, field_value)
              [] operator = "<" -> Comparable(field_value, value) /\ Less(field_value, value)
              [] operator = ">=" -> Comparable(field_value, value) /\ ~Less(field_value, value)
              [] operator = "<=" -> Comparable(field_value, value) /\ ~Less(value, field_value)
              [] operator = "contains" ->
                    value.k = "str" /\ field_value.k \in {"int", "str"}
                    /\ Substring(value.s, ToStr(field_value))
              [] operator = "exists" -> TRUE
              [] OTHER -> FALSE

\* the index (from 1) of the first clause whose condition holds, 0 when none
FirstMatch(conditions, input_data) ==
    LET hits == {i \in 1..Len(conditions) :
                    evaluate_condition(ConfigGet(conditions[i], "condition", EmptyMap),
                                       input_data)}
    IN IF hits = {} THEN 0 ELSE CHOOSE i \in hits : \A j \in hits : i <= j

\* `if isinstance(result_output, dict): output.update(result_output)`
MergeResult(output, result_output) ==
    IF IsDict(result_output) THEN DictUpdate(output, result_output) ELSE output

\* execute_conditional_logic; matched_condition counts the clauses from 0
execute_conditional_logic(config, input_data) ==
    LET condition_type == ConfigGet(config, "type", "if")
        conditions == ConfigGet(config, "conditions", <<>>)
        default_output == ConfigGet(config, "default", input_data)
        i == FirstMatch(conditions, input_data)
        result_output == IF i = 0 THEN default_output
                         ELSE ConfigGet(conditions[i], "output", input_data)
        matched_condition == IF i = 0 THEN VNull ELSE VInt(i - 1)
    IN Success(MergeResult(VDict([result |-> result_output,
                                  matched_condition |-> matched_condition,
                                  input |-> input_data,
                                  condition_type |-> VStr(condition_type)]),
                           result_output))

(***************************************************************************)
(* Texts and paths.  A text whose characters an executor looks at is the   *)
(* list of its characters; a path text is held as its segments between     *)
(* slashes ("" is the empty segment of `//` and of a trailing slash).       *)
(***************************************************************************)
VText(chars) == [k |-> "str", chars |-> chars]
VPath(path) == [k |-> "str", path |-> path]
VBool(b) == [k |-> "bool", b |-> b]
IsText(v) == v.k = "str" /\ "chars" \in DOMAIN v

\* s[i..] starts with t
StartsAt(s, i, t) == i + Len(t) - 1 <= Len(s) /\ \A j \in 1..Len(t) : s[i + j - 1] = t[j]

RECURSIVE ReplaceFrom(_, _, _, _)
\* s.replace(old, new) from position i on: the occurrences of old, left to
\* right, without overlap (old is not empty)
ReplaceFrom(s, i, old, new) ==
    IF i > Len(s) THEN <<>>
    ELSE IF StartsAt(s, i, old) THEN new \o ReplaceFrom(s, i + Len(old), old, new)
    ELSE <<s[i]>> \o ReplaceFrom(s, i + 1, old, new)
Replace(s, old, new) == ReplaceFrom(s, 1, old, new)

\* the characters of the keys of the input mappings
KeyChars == [a |-> <<"a">>, b |-> <<"b">>, url |-> <<"u", "r", "l">>]
\* a substitution that puts the value in the place of the bare key
Placeholder_Bare(key) == KeyChars[key]
\* f'{{{key}}}'
Placeholder(key) == <<"{">> \o KeyChars[key] \o <<"}">>
\* str(value) of a text, of None and of a number of one digit
Str(value) ==
    CASE IsText(value) -> value.chars
      [] value.k = "null" -> <<"N", "o", "n", "e">>
      [] value.k = "int" -> <<<<"0", "1", "2", "3", "4", "5", "6", "7", "8", "9">>[value.n + 1]>>

RECURSIVE ReplaceKeys(_, _, _)
\* for key, value in data.items(): obj = obj.replace(f'{{{key}}}', str(value));
\* `keys` is data's keys in the order of the mapping
ReplaceKeys(chars, keys, data) ==
    IF keys = <<>> THEN chars
    ELSE ReplaceKeys(Replace(chars, Placeholder(Head(keys)), Str(data.m[Head(keys)])),
                     Tail(keys), data)

\* the orders the keys of a mapping can have (the order a value does not hold)
KeyOrders(data) == IF IsDict(data) THEN Perms(DOMAIN data.m) ELSE {<<>>}

Path(abs, segs) == [abs |-> abs, segs |-> segs]
\* file_path.startswith(str(root) + '/')
StartsWithDir(path, root) ==
    /\ path.abs
    /\ Len(path.segs) > Len(root)
    /\ SubSeq(path.segs, 1, Len(root)) = root
\* the parts pathlib keeps: it drops empty and `.` segments
Parts(segs) == SeqFilter(segs, Range(segs) \ {"", "."})
\* Path(p).name
Name(path) == IF Parts(path.segs) = <<>> THEN "" ELSE Parts(path.segs)[Len(Parts(path.segs))]
\* str(root / name)
Under(root, name) == Path(TRUE, IF name = "" THEN root ELSE Append(root, name))
\* Path(p).parent
Parent(path) ==
    IF Parts(path.segs) = <<>> THEN Path(path.abs, <<>>)
    ELSE Path(path.abs, SubSeq(Parts(path.segs), 1, Len(Parts(path.segs)) - 1))

RECURSIVE Resolve(_, _)
\* the directory entry the operating system reaches from `at` along segs:
\* `..` goes up (the root is its own parent), empty and `.` segments stay
Resolve(at, segs) ==
    IF segs = <<>> THEN at
    ELSE Resolve(CASE Head(segs) \in {"", "."} -> at
                   [] Head(segs) = ".." -> IF at = <<>> THEN at
                                           ELSE SubSeq(at, 1, Len(at) - 1)
                   [] OTHER -> Append(at, Head(segs)),
                 Tail(segs))
\* the location of an absolute path
Location(path) == Resolve(<<>>, path.segs)
\* loc is root or below it
Inside(loc, root) == Len(loc) >= Len(root) /\ SubSeq(loc, 1, Len(root)) = root

\* `if not p.startswith(root + '/'): p = str(root / Path(p).name)`
SafePath(path, root) ==
    IF StartsWithDir(path, root) THEN path ELSE Under(root, Name(path))

(***************************************************************************)
(* execute_file_operation.  `keys` is the order of the keys of the input   *)
(* mapping; `entry` is what the file system holds at the location of the   *)
(* path: "missing", "file" or "dir" (the directory around it exists).  The *)
(* listing of a directory is the file system's and is left out.            *)
(***************************************************************************)
FilesRoot == <<"tmp", "workflow_files">>
\* the content of a file that is read
Stored == VText(<<"a">>)

\* a result with what the executor did outside
Done(outcome, touched) ==
    [status |-> outcome.status, output |-> outcome.output, error |-> outcome.error,
     touched |-> touched]

execute_file_operation(config, input_data, keys, entry) ==
    LET operation == ConfigGet(config, "operation", "read")
        file_path == SafePath(ConfigGet(config, "path", Path(FALSE, <<>>)), FilesRoot)
        content == IF IsDict(input_data)
                   THEN ReplaceKeys(ConfigGet(config, "content", <<>>), keys, input_data)
                   ELSE ConfigGet(config, "content", <<>>)
        at == {Location(file_path)}
        dir_path == IF entry = "dir" THEN file_path ELSE Parent(file_path)
    IN CASE operation = "read" ->
              IF entry = "missing" THEN Done(Failure("File not found"), at)
              ELSE IF entry = "dir" THEN Done(Failure("Is a directory"), at)
              ELSE Done(Success(VDict([content |-> Stored, path |-> VPath(file_path),
                                       size |-> VInt(Len(Stored.chars)),
                                       operation |-> VStr("read")])), at)
         [] operation = "write" ->
              IF entry = "dir" THEN Done(Failure("Is a directory"), at)
              ELSE Done(Success(VDict([path |-> VPath(file_path),
                                       bytes_written |-> VInt(Len(content)),
                                       operation |-> VStr("write")])), at)
         [] operation = "append" ->
              IF entry = "dir" THEN Done(Failure("Is a directory"), at)
              ELSE Done(Success(VDict([path |-> VPath(file_path),
                                       bytes_appended |-> VInt(Len(content)),
                                       operation |-> VStr("append")])), at)
         [] operation = "delete" ->
              IF entry = "missing" THEN Done(Failure("File not found"), at)
              ELSE IF entry = "dir" THEN Done(Failure("Is a directory"), at)
              ELSE Done(Success(VDict([path |-> VPath(file_path),
                                       operation |-> VStr("delete"),
                                       success |-> VBool(TRUE)])), at)
         [] operation = "list" ->
              Done(Success(VDict([path |-> VPath(dir_path), operation |-> VStr("list")])),
                   {Location(dir_path)})
         [] OTHER -> Done(Success(EmptyDict), {})

(***************************************************************************)
(* execute_database_query.  The queries of the model hold no MATCH, no     *)
(* load_extension call and no vec0 table, so the branches of the vector    *)
(* extension are not taken; every statement is valid SQL, so a call of     *)
(* cursor.execute fails only when the number of values bound is not the    *)
(* number of `?` it holds; the data is what the engine returns when no row *)
(* is touched.                                                             *)
(***************************************************************************)
DbRoot == <<"tmp", "workflow_dbs">>

\* s.count(c)
Count(s, c) == Cardinality({i \in 1..Len(s) : s[i] = c})

\* s.split(sep)
Split(s, sep) ==
    LET F[i \in 0..Len(s)] ==
            IF i = 0 THEN <<<<>>>>
            ELSE IF s[i] = sep THEN Append(F[i - 1], <<>>)
            ELSE [F[i - 1] EXCEPT ![Len(F[i - 1])] = Append(@, s[i])]
    IN F[Len(s)]

RECURSIVE Strip(_)
\* s.strip()
Strip(s) ==
    IF s = <<>> THEN s
    ELSE IF Head(s) = " " THEN Strip(Tail(s))
    ELSE IF s[Len(s)] = " " THEN Strip(SubSeq(s, 1, Len(s) - 1))
    ELSE s

\* [s.strip() for s in query.split(';') if s.strip()]
Statements(query) ==
    LET stripped == [i \in 1..Len(Split(query, ";")) |-> Strip(Split(query, ";")[i])]
    IN SeqFilter(stripped, Range(stripped) \ {<<>>})

\* seq[from:from + count], with from counted from 0
Slice(seq, from, count) ==
    SubSeq(seq, from + 1, IF from + count < Len(seq) THEN from + count ELSE Len(seq))

\* one parameter of config.params: a `{key}` template is looked up in the
\* input mapping (None when the key is not there), anything else is taken as
\* it is
ProcessParam(param_template, input_data) ==
    IF IsText(param_template) /\ param_template.chars # <<>>
       /\ Head(param_template.chars) = "{"
       /\ param_template.chars[Len(param_template.chars)] = "}"
    THEN LET key == SubSeq(param_template.chars, 2, Len(param_template.chars) - 1)
             found == IF IsDict(input_data)
                      THEN {k \in DOMAIN input_data.m : KeyChars[k] = key} ELSE {}
         IN IF found = {} THEN VNull ELSE input_data.m[CHOOSE k \in found : TRUE]
    ELSE param_template
\* `key in input_data` raises TypeError for an input that is no container (in
\* a list the key is not found)
ParamRaises(param_template, input_data) ==
    /\ IsText(param_template) /\ param_template.chars # <<>>
    /\ Head(param_template.chars) = "{"
    /\ param_template.chars[Len(param_template.chars)] = "}"
    /\ input_data.k \in {"null", "int", "bool"}

\* a call of cursor.execute
Execute(stmt, params) == [stmt |-> stmt, params |-> params]
Binds(job) == Count(job.stmt, "?") = Len(job.params)

RECURSIVE ModifyJobs(_, _, _, _)
\* the loop over the statements of an insert, update or delete
ModifyJobs(statements, processed_params, i, param_index) ==
    IF i > Len(statements) THEN <<>>
    ELSE LET placeholder_count == Count(statements[i], "?")
         IN <<Execute(statements[i], Slice(processed_params, param_index, placeholder_count))>>
            \o ModifyJobs(statements, processed_params, i + 1,
                          param_index + placeholder_count)

\* the calls of cursor.execute the operation makes, in order
Jobs(operation, query, processed_params) ==
    LET statements == Statements(query)
    IN CASE operation = "select" ->
              IF Len(statements) > 1
              THEN [k \in 1..Len(statements) |->
                       Execute(statements[k],
                               IF k = Len(statements) THEN processed_params ELSE <<>>)]
              ELSE <<Execute(query, processed_params)>>
         [] operation \in {"insert", "update", "delete"} ->
              IF Len(statements) > 1
              THEN ModifyJobs(statements, processed_params, 1, 0)
              ELSE <<Execute(query, processed_params)>>
         [] operation = "create" ->
              IF Len(statements) > 1
              THEN [k \in 1..Len(statements) |-> Execute(statements[k], <<>>)]
              ELSE <<Execute(query, <<>>)>>
         [] OTHER -> <<>>

\* the calls made up to the first that fails
Executed(jobs) ==
    LET bad == {k \in 1..Len(jobs) : ~Binds(jobs[k])}
    IN IF bad = {} THEN jobs ELSE SubSeq(jobs, 1, CHOOSE k \in bad : \A j \in bad : k <= j)

\* result_data of an operation
EngineData(operation) ==
    CASE operation = "select" -> VList(<<>>)
      [] operation = "create" -> VDict([table_created |-> VBool(TRUE)])
      [] OTHER -> VDict([rows_affected |-> VInt(0), last_row_id |-> VNull])

\* a result with the database opened and the calls of cursor.execute made
Queried(outcome, touched, executions) ==
    [status |-> outcome.status, output |-> outcome.output, error |-> outcome.error,
     touched |-> touched, executions |-> executions]

execute_database_query(config, input_data, keys, entry) ==
    LET given == ConfigGet(config, "query", <<>>)
        params == ConfigGet(config, "params", <<>>)
        database == SafePath(ConfigGet(config, "database", Path(FALSE, <<"workflow.db">>)),
                             DbRoot)
        operation == ConfigGet(config, "operation", "select")
        query == IF IsDict(input_data) THEN ReplaceKeys(given, keys, input_data) ELSE given
        processed_params == [k \in 1..Len(params) |-> ProcessParam(params[k], input_data)]
        base_output == IF IsDict(input_data) THEN input_data ELSE EmptyDict
        jobs == Jobs(operation, query, processed_params)
        at == {Location(database)}
    IN IF \E k \in 1..Len(params) : ParamRaises(params[k], input_data)
       THEN Queried(Failure("Database query failed"), {}, <<>>)
       ELSE IF entry = "dir"
       THEN Queried(Failure("unable to open database file"), at, <<>>)
       ELSE IF operation \notin {"select", "insert", "update", "delete", "create"}
       THEN Queried(Failure("Unsupported database operation"), at, <<>>)
       ELSE IF \E k \in 1..Len(jobs) : ~Binds(jobs[k])
       THEN Queried(Failure("Incorrect number of bindings supplied"), at, Executed(jobs))
       ELSE Queried(Success(DictUpdate(base_output,
                                       VDict([data |-> EngineData(operation),
                                              operation |-> VStr(operation),
                                              database |-> VPath(database),
                                              query |-> VText(query)]))),
                    at, jobs)

(***************************************************************************)
(* execute_http_request.  `reply` is what the network gives to the         *)
(* request: a response with its status code, or an exception of the        *)
(* session (a timeout, a name that does not resolve).  An empty url is     *)
(* refused by the session before anything is sent.                         *)
(***************************************************************************)
RECURSIVE replace_placeholders(_, _, _)
\* `keys` is data's keys in the order of the mapping
replace_placeholders(obj, data, keys) ==
    IF IsText(obj)
    THEN VText(IF IsDict(data) THEN ReplaceKeys(obj.chars, keys, data) ELSE obj.chars)
    ELSE IF IsDict(obj)
    THEN VDict([k \in DOMAIN obj.m |-> replace_placeholders(obj.m[k], data, keys)])
    ELSE IF IsList(obj)
    THEN VList([i \in 1..Len(obj.xs) |-> replace_placeholders(obj.xs[i], data, keys)])
    ELSE obj

\* method.upper()
Upper(method) ==
    CASE method = "get" -> "GET"
      [] method = "post" -> "POST"
      [] OTHER -> method

Response(status) == [kind |-> "response", status |-> status]
Refused(error) == [kind |-> "raise", error |-> error]

\* a result with the configuration after the substitution and the request
\* handed to the session
Requested(outcome, processed, sent) ==
    [status |-> outcome.status, output |-> outcome.output, error |-> outcome.error,
     processed |-> processed, request |-> sent]

\* output_data with the keys of the input it does not hold yet
Preserve(output_data, input_data) ==
    IF IsDict(input_data) THEN DictUpdate(input_data, output_data) ELSE output_data

execute_http_request(config, input_data, keys, reply) ==
    LET method == Upper(ConfigGet(config, "method", "GET"))
        processed_url == replace_placeholders(ConfigGet(config, "url", VText(<<>>)),
                                              input_data, keys)
        processed_headers == replace_placeholders(ConfigGet(config, "headers", EmptyDict),
                                                  input_data, keys)
        processed_params == replace_placeholders(ConfigGet(config, "params", EmptyDict),
                                                 input_data, keys)
        processed_body == replace_placeholders(ConfigGet(config, "body", EmptyDict),
                                               input_data, keys)
        processed == [url |-> processed_url, headers |-> processed_headers,
                      params |-> processed_params, body |-> processed_body]
        sent == [method |-> method, url |-> processed_url, headers |-> processed_headers,
                 params |-> processed_params,
                 json |-> IF method \in {"POST", "PUT", "PATCH"} THEN processed_body
                          ELSE VNull]
    IN IF processed_url.chars = <<>>
       THEN Requested(Failure("HTTP request failed"), processed, sent)
       ELSE IF reply.kind = "raise"
       THEN Requested(Failure("HTTP request failed"), processed, sent)
       ELSE Requested(Success(Preserve(VDict([status_code |-> VInt(reply.status),
                                              headers |-> EmptyDict,
                                              data |-> VStr("response_text"),
                                              url |-> processed_url,
                                              method |-> VStr(method)]),
                                       input_data)),
                      processed, sent)

(***************************************************************************)
(* One executor invocation, followed on its own: the call is drawn from    *)
(* the families below and the executor is applied to it.                   *)
(***************************************************************************)
\* most clauses of a condition configuration
MaxClauses == 2

ExecCall(executor, config, input_data) ==
    [executor |-> executor, config |-> config, input_data |-> input_data]

\* condition calls: over the input, the clauses (condition and output) and
\* the default
CondInputs ==
    {VNull, VInt(80), VDict([score |-> VInt(80)]), VDict([meta |-> VDict([score |-> VInt(70)])])}
CondExprs ==
    {[field |-> <<"score">>, operator |-> ">=", value |-> VStr("70")],
     [field |-> <<"score">>, operator |-> "<", value |-> VStr("80")],
     [field |-> <<"meta", "score">>, operator |-> "==", value |-> VStr("70")],
     [field |-> <<"score">>, operator |-> "contains", value |-> VStr("")],
     [field |-> <<"score">>, operator |-> "!=", value |-> VStr("hi")],
     [field |-> <<"score">>, operator |-> "exists"]}
CondOutputs ==
    {VStr("low"), VDict([route |-> VStr("high")]), VDict([result |-> VStr("hi")]),
     VDict([matched_condition |-> VInt(80), input |-> VNull, condition_type |-> VStr("")])}
CondClauses ==
    {[condition |-> c, output |-> VDict([route |-> VStr("high")])] : c \in CondExprs}
    \cup {[condition |-> c, output |-> o] :
             c \in {e \in CondExprs : e.operator \in {">=", "<"}}, o \in CondOutputs}
    \cup {[condition |-> c] : c \in {e \in CondExprs : e.operator \in {">=", "exists"}}}
CondConfigs ==
    {[type |-> "if", conditions |-> cs, default |-> d] :
        cs \in SeqsUpTo(CondClauses, MaxClauses), d \in CondOutputs}
    \cup {[conditions |-> cs] : cs \in SeqsUpTo(CondClauses, 1)}
ConditionCalls ==
    {ExecCall("condition", c, i) : c \in CondConfigs, i \in CondInputs}

\* most segments of a configured path behind its first part, most characters
\* of a query, most parameters of a database configuration
MaxSegs == 2
MaxQuery == 4
MaxParams == 3

\* the paths of a configuration: relative or absolute, under the root or
\* not, then segments that go down, up or nowhere
ConfigPaths(root) ==
    {p \in {Path(abs, first \o rest) :
                abs \in BOOLEAN, first \in {<<>>, root},
                rest \in SeqsUpTo({"..", "a", ""}, MaxSegs)} :
        p.abs \/ p.segs = <<>> \/ Head(p.segs) # ""}
\* what the file system can hold at a location
EntriesAt(loc) ==
    IF loc \in {<<>>, <<"tmp">>, FilesRoot, DbRoot} THEN {"dir"} ELSE {"missing", "file", "dir"}

\* file calls: over the operation and the path
FileCalls ==
    {ExecCall("file", [operation |-> o, path |-> p, content |-> <<"{", "a", "}", "b">>], i) :
        o \in {"read", "write", "append", "delete", "list", "copy"},
        p \in ConfigPaths(FilesRoot),
        i \in {VNull, VDict([a |-> VInt(1)])}}
    \cup {ExecCall("file", [operation |-> "list"], VNull)}

\* database calls: over the path of the database; and over the operation, the
\* query and the number of parameters
ParamLists ==
    {[k \in 1..n |-> VInt(k)] : n \in 0..MaxParams}
    \cup {<<VText(<<"{", "a", "}">>)>>, <<VText(<<"{", "b", "}">>), VInt(1)>>}
DatabaseCalls ==
    {ExecCall("database", [operation |-> "create", query |-> <<"s">>, database |-> p], VNull) :
        p \in ConfigPaths(DbRoot)}
    \cup {ExecCall("database", [operation |-> o, query |-> q, params |-> ps], i) :
             o \in {"select", "insert"},
             q \in SeqsUpTo({"s", "?", ";", " "}, MaxQuery),
             ps \in ParamLists,
             i \in {VDict([a |-> VInt(7)])}}
    \cup {ExecCall("database", [operation |-> o, query |-> q, params |-> ps], i) :
             o \in {"update", "delete", "create", "drop"},
             q \in {<<"s">>, <<"?", ";", "?">>, <<"s", ";", " ", "s">>, <<"?", "?", ";", "?">>},
             ps \in ParamLists,
             i \in {VDict([a |-> VInt(7)])}}
    \cup {ExecCall("database", [query |-> <<"?">>, params |-> ps], VNull) : ps \in ParamLists}

\* most characters of a configured url
MaxText == 4

\* http calls: over the text of the url and the input; and over the method,
\* the body and the input
HttpInputs ==
    {VNull, VInt(1), VList(<<VInt(1)>>), EmptyDict, VDict([a |-> VInt(1)]),
     VDict([a |-> VText(<<"{", "b", "}">>), b |-> VInt(2)]),
     VDict([url |-> VText(<<"x">>), a |-> VNull])}
HttpBodies ==
    {EmptyDict, VInt(1),
     VList(<<VText(<<"{", "a", "}">>), VInt(0)>>),
     VDict([q |-> VText(<<"{", "a", "}">>), n |-> VInt(1), w |-> VText(<<"{", "c", "}">>),
            l |-> VList(<<VText(<<"a", "{", "b", "}">>), VNull, VBool(TRUE),
                          VDict([a |-> VText(<<"{", "a", "}", "{", "a", "}">>)])>>)])}
HttpCalls ==
    {ExecCall("http", [url |-> VText(t)], i) :
        t \in SeqsUpTo({"{", "a", "b", "}"}, MaxText), i \in HttpInputs}
    \cup {ExecCall("http", [method |-> m, url |-> VText(<<"u">>),
                            headers |-> VDict([h |-> VText(<<"{", "b", "}">>)]),
                            params |-> VDict([p |-> VText(<<"a">>)]), body |-> b], i) :
             m \in {"get", "post", "PUT"}, b \in HttpBodies, i \in HttpInputs}
    \cup {ExecCall("http", [timeout |-> 30], VNull)}
\* what the network can give
Replies == {Response(200), Response(404), Response(500), Refused("timeout"), Refused("dns")}

ExecCalls == ConditionCalls \cup FileCalls \cup DatabaseCalls \cup HttpCalls

ExecInit ==
    /\ RunIdle
    /\ LoopIdle
    /\ exec_call \in ExecCalls
    /\ epc = "call"
    /\ exec_result = [status |-> None]

\* result = await execute_conditional_logic(config, input_data)
RunCondition ==
    /\ epc = "call" /\ exec_call.executor = "condition"
    /\ exec_result' = execute_conditional_logic(exec_call.config, exec_call.input_data)
    /\ epc' = "done"
    /\ UNCHANGED <<exec_call, run_vars, loop_vars>>

\* result = await execute_file_operation(config, input_data)
RunFile ==
    /\ epc = "call" /\ exec_call.executor = "file"
    /\ \E keys \in KeyOrders(exec_call.input_data) :
       \E entry \in EntriesAt(Location(SafePath(ConfigGet(exec_call.config, "path",
                                                          Path(FALSE, <<>>)), FilesRoot))) :
          exec_result' = execute_file_operation(exec_call.config, exec_call.input_data,
                                                keys, entry)
    /\ epc' = "done"
    /\ UNCHANGED <<exec_call, run_vars, loop_vars>>

\* result = await execute_database_query(config, input_data)
RunDatabase ==
    /\ epc = "call" /\ exec_call.executor = "database"
    /\ \E keys \in KeyOrders(exec_call.input_data) :
       \E entry \in EntriesAt(Location(SafePath(ConfigGet(exec_call.config, "database",
                                                          Path(FALSE, <<"workflow.db">>)),
                                                DbRoot))) :
          exec_result' = execute_database_query(exec_call.config, exec_call.input_data,
                                                keys, entry)
    /\ epc' = "done"
    /\ UNCHANGED <<exec_call, run_vars, loop_vars>>

\* result = await execute_http_request(config, input_data)
RunHttp ==
    /\ epc = "call" /\ exec_call.executor = "http"
    /\ \E keys \in KeyOrders(exec_call.input_data) :
       \E reply \in Replies :
          exec_result' = execute_http_request(exec_call.config, exec_call.input_data,
                                              keys, reply)
    /\ epc' = "done"
    /\ UNCHANGED <<exec_call, run_vars, loop_vars>>

ExecNext ==
    \/ RunCondition
    \/ RunFile
    \/ RunDatabase
    \/ RunHttp

ExecSpec == ExecInit /\ [][ExecNext]_vars

(***************************************************************************)
(* One execute_sub_workflow call, followed node by node: the call is the   *)
(* one execute_iteration makes for an item of a foreach.  `steps` keeps,   *)
(* for every node the runner went through, the node, the predecessor whose *)
(* recorded output was taken as input (None when the running current_input *)
(* was taken), the node that was run just before, the input, the           *)
(* executor's outcome and the output recorded.                             *)
(***************************************************************************)
\* longest connection list of a generated loop body
MaxEdges == 3

SubCall(foreach_node_id, nodes, conns, item, input_data) ==
    [executor |-> "sub_workflow",
     foreach_node_id |-> foreach_node_id, nodes |-> nodes, conns |-> conns,
     item |-> item, input_data |-> input_data,
     node_ids |-> NodesToExecute(foreach_node_id, nodes, conns),
     starting_input |-> IterationInput(item, input_data)]

\* the source of the first connection into node_id that is in local_outputs
SubSource(conns, node_id, local_outputs) ==
    LET hits == {i \in 1..Len(conns) :
                    conns[i].target = node_id /\ conns[i].source \in DOMAIN local_outputs}
    IN IF hits = {} THEN None
       ELSE conns[CHOOSE i \in hits : \A j \in hits : i <= j].source

\* body calls over the shape of the body: a foreach and three nodes behind
\* it, any connection list
ShapeIds == <<"a", "b", "c">>
ShapeEdges ==
    {Conn(s, t) : s \in {"loop"} \cup Range(ShapeIds), t \in Range(ShapeIds)}
        \ {Conn(n, n) : n \in Range(ShapeIds)}
ShapeCalls ==
    {SubCall("loop",
             [loop |-> Node("foreach"), a |-> Python([op |-> "const", ret |-> VStr("A")]),
              b |-> [Node("typescript") EXCEPT !.code = [op |-> "const", ret |-> VStr("B")]],
              c |-> last],
             cd, VInt(1), VNull) :
        cd \in SeqsUpTo(ShapeEdges, MaxEdges), last \in {Node("endloop"), Node("python")}}

\* body calls over what flows: loop -> a -> b -> c -> tail, over the item, the
\* foreach's input and the code of a and b
Metadata ==
    {VDict([v |-> VInt(1)]),
     VDict([route |-> VStr("own"), priority |-> VInt(1)]),
     VDict([_workflow_context |-> VStr("own")])}
FlowItems ==
    {VInt(0), VInt(1), VDict([v |-> VInt(1)]),
     VDict([route |-> VStr("high"), action |-> VStr("go")]),
     VDict([_workflow_context |-> VStr("given")])}
FlowBodies ==
    {Python([op |-> "identity"]), Python([op |-> "div"]), Skipped(Python([op |-> "div"])),
     Node("typescript"), Node("start")}
    \cup {Python([op |-> "const", ret |-> m]) : m \in Metadata}
FlowCalls ==
    {SubCall("loop",
             [loop |-> Node("foreach"), a |-> a, b |-> b, c |-> Python([op |-> "identity"]),
              tail |-> Node("endloop")],
             <<Conn("loop", "a"), Conn("a", "b"), Conn("b", "c"), Conn("c", "tail")>>,
             item, input_data) :
        a \in FlowBodies, b \in FlowBodies, item \in FlowItems,
        input_data \in {VNull, VDict([src |-> VInt(1)])}}

SubCalls == ShapeCalls \cup FlowCalls

\* the locals of the runner before its first node
SubLocals(starting_input) ==
    [status |-> None, output |-> VNull, error |-> None,
     local_outputs |-> EmptyMap, current_input |-> starting_input,
     node_executions |-> <<>>, pos |-> 1, steps |-> <<>>]

SubInit ==
    /\ RunIdle
    /\ LoopIdle
    /\ exec_call \in SubCalls
    /\ epc = "nodes"
    /\ exec_result = SubLocals(exec_call.starting_input)

SubNodeId == exec_call.node_ids[exec_result.pos]
SubNode == exec_call.nodes[SubNodeId]
SubNodeInput ==
    SubInput(exec_call.conns, SubNodeId, exec_result.local_outputs, exec_result.current_input)
SubStep(outcome, output) ==
    [node |-> SubNodeId,
     source |-> SubSource(exec_call.conns, SubNodeId, exec_result.local_outputs),
     previous |-> IF exec_result.steps = <<>> THEN None
                  ELSE exec_result.steps[Len(exec_result.steps)].node,
     input |-> SubNodeInput, outcome |-> outcome, output |-> output]

\* a runner that goes on after an error outcome
SubStops_Never(result) == FALSE
\* `if result['status'] == 'error': return ...`
SubStops(result) == result.status = "error"

\* lines 1987-2004: a node with skipDuringExecution passes its input through
SubSkip ==
    /\ epc = "nodes" /\ exec_result.pos <= Len(exec_call.node_ids)
    /\ SubNode.skipDuringExecution
    /\ exec_result' =
          [exec_result EXCEPT
              !.local_outputs = Record(@, SubNodeId, SubNodeInput),
              !.current_input = SubNodeInput,
              !.node_executions = Append(@, NodeExecution(SubNodeId, "skipped")),
              !.pos = @ + 1,
              !.steps = Append(@, SubStep(Success(SubNodeInput), SubNodeInput))]
    /\ UNCHANGED <<exec_call, epc, run_vars, loop_vars>>

\* lines 2006-2101: the node's executor is run and its output recorded
SubRun ==
    /\ epc = "nodes" /\ exec_result.pos <= Len(exec_call.node_ids)
    /\ ~SubNode.skipDuringExecution
    /\ LET result == SubDispatch(SubNode, SubNodeInput)
           output == PreserveMetadata(result.output, SubNodeInput)
       IN /\ ~SubStops(result)
          /\ exec_result' =
                [exec_result EXCEPT
                    !.local_outputs = Record(@, SubNodeId, output),
                    !.current_input = output,
                    !.node_executions = Append(@, NodeExecution(SubNodeId, result.status)),
                    !.pos = @ + 1,
                    !.steps = Append(@, SubStep(result, output))]
    /\ UNCHANGED <<exec_call, epc, run_vars, loop_vars>>

\* lines 2075-2081: the runner returns at the node whose outcome is an error
SubFail ==
    /\ epc = "nodes" /\ exec_result.pos <= Len(exec_call.node_ids)
    /\ ~SubNode.skipDuringExecution
    /\ LET result == SubDispatch(SubNode, SubNodeInput)
       IN /\ SubStops(result)
          /\ exec_result' =
                [exec_result EXCEPT
                    !.status = "error", !.output = VNull, !.error = result.error,
                    !.node_executions = Append(@, NodeExecution(SubNodeId, result.status)),
                    !.steps = Append(@, SubStep(result, VNull))]
    /\ epc' = "done"
    /\ UNCHANGED <<exec_call, run_vars, loop_vars>>

\* lines 2120-2139: the list is through; the runner returns the output of
\* its last node
SubReturn ==
    /\ epc = "nodes" /\ exec_result.pos > Len(exec_call.node_ids)
    /\ exec_result' =
          [exec_result EXCEPT
              !.status = "success",
              !.output =
                  IF exec_call.node_ids = <<>> THEN exec_call.starting_input
                  ELSE IF exec_call.node_ids[Len(exec_call.node_ids)]
                             \in DOMAIN exec_result.local_outputs
                  THEN exec_result.local_outputs[exec_call.node_ids[Len(exec_call.node_ids)]]
                  ELSE exec_result.current_input]
    /\ epc' = "done"
    /\ UNCHANGED <<exec_call, run_vars, loop_vars>>

SubNext ==
    \/ SubSkip
    \/ SubRun
    \/ SubFail
    \/ SubReturn

SubSpec == SubInit /\ [][SubNext]_vars

(***************************************************************************)
(* The /run handler of main.py: one request, followed node by node.  It    *)
(* works on the request and on node_results and node_outputs; it has no    *)
(* execution order and no masked set, and these stay empty.                *)
(***************************************************************************)
\* execute_python_code of main.py: run(input) under RestrictedPython; every
\* failure of the user function is caught and becomes an error outcome
MainPython(code, input_data) ==
    CASE code.op = "identity" -> Success(input_data)
      [] code.op = "const" -> Success(code.ret)
      [] code.op = "div" ->
           IF input_data.k = "int" /\ input_data.n # 0
           THEN Success(VInt(10 \div input_data.n))
           ELSE Failure("Python execution failed")

\* execute_typescript_code of main.py: the input is pasted into the script
\* with json.dumps, run(input) is awaited in a node subprocess and the last
\* line of its stdout is parsed; a function that throws leaves stdout empty
MainTypescript(code, input_data) ==
    IF ~JsonSerializable(input_data)
    THEN Failure("Execution failed")
    ELSE CASE code.op = "identity" -> Success(input_data)
           [] code.op = "const" -> Success(code.ret)
           [] code.op = "div" ->
                IF input_data.k = "int" /\ input_data.n # 0
                THEN Success(VInt(10 \div input_data.n))
                ELSE Failure("No output from TypeScript execution")

\* input_data of a node: the output recorded for the source of the first
\* connection into the node, in connection order, that is not None, else {}
MainInput(node_id, conns, outputs) ==
    LET found == {i \in 1..Len(conns) :
                     /\ conns[i].target = node_id
                     /\ conns[i].source \in DOMAIN outputs
                     /\ outputs[conns[i].source] # VNull}
    IN IF found = {} THEN EmptyDict
       ELSE outputs[conns[CHOOSE i \in found : \A j \in found : i <= j].source]

\* the if / elif chain on node_type
MainDispatch(node, input_data) ==
    CASE node.type = "start" ->
            Success(VDict([message |-> VStr("Workflow started")]))
      [] node.type = "end" -> Success(input_data)
      [] node.type = "python" -> MainPython(node.code, input_data)
      [] node.type = "typescript" -> MainTypescript(node.code, input_data)
      [] OTHER -> Failure("Unknown node type")

\* the requests: three nodes in every order of the node map, connections
\* from a lower to a higher id (no cycle), any list of them
MainOrders == Perms({"n1", "n2", "n3"})
MainKinds ==
    {Node("start"), Node("end"), Node("typescript"), Node("endloop"),
     Python([op |-> "div"]), Python([op |-> "const", ret |-> VInt(1)]),
     Python([op |-> "const", ret |-> VNull])}
MainEdges == {Conn("n1", "n2"), Conn("n1", "n3"), Conn("n2", "n3")}
MainWorkflows ==
    {[ids |-> o, nodes |-> nd, conns |-> cd] :
        o \in MainOrders, nd \in [{"n1", "n2", "n3"} -> MainKinds],
        cd \in SeqsUpTo(MainEdges, MaxConns)}

\* the state at `for node in nodes`
MainInit ==
    /\ \E w \in MainWorkflows :
          /\ node_ids = w.ids
          /\ nodes_data = w.nodes
          /\ connections_data = w.conns
    /\ pc = "loop"
    /\ execution_order = <<>>
    /\ nodes_to_skip = {}
    /\ cursor = 1
    /\ node_results = <<>>
    /\ node_outputs = EmptyMap
    /\ response = NoResponse
    /\ output_writes = EmptyMap
    /\ calls = <<>>
    /\ LoopIdle
    /\ ExecIdle

\* the node the for-loop is at, its input and what its executor returns
MainId == node_ids[cursor]
MainResult == MainDispatch(nodes_data[MainId],
                           MainInput(MainId, connections_data, node_outputs))

\* one pass of the loop body: the output is stored and the entry appended
MainStep ==
    LET input_data == MainInput(MainId, connections_data, node_outputs)
    IN /\ node_results' = Append(node_results, TraceEntry(MainId, MainResult))
       /\ node_outputs' = Record(node_outputs, MainId, MainResult.output)
       /\ calls' = Append(calls, Call(MainId, nodes_data[MainId].type, "handler",
                                      input_data, input_data, Normal(MainResult)))
       /\ UNCHANGED <<request, execution_order, nodes_to_skip, output_writes, response>>
       /\ UNCHANGED <<loop_vars, exec_vars>>

\* a node whose result is not an error: the loop goes on
MainRun ==
    /\ pc = "loop" /\ cursor <= Len(node_ids)
    /\ MainResult.status # "error"
    /\ MainStep
    /\ cursor' = cursor + 1
    /\ pc' = pc

\* a node whose result is an error: `break`
MainFail ==
    /\ pc = "loop" /\ cursor <= Len(node_ids)
    /\ MainResult.status = "error"
    /\ MainStep
    /\ cursor' = cursor
    /\ pc' = "respond"

\* overall status and error from the first error entry, and the return
MainRespond ==
    /\ \/ pc = "respond"
       \/ pc = "loop" /\ cursor > Len(node_ids)
    /\ response' = BuildResponse(node_results)
    /\ pc' = "done"
    /\ UNCHANGED <<request, execution_order, nodes_to_skip, cursor, node_results,
                   node_outputs, output_writes, calls>>
    /\ UNCHANGED <<loop_vars, exec_vars>>

MainNext ==
    \/ MainRun
    \/ MainFail
    \/ MainRespond

MainSpec == MainInit /\ [][MainNext]_vars

(***************************************************************************)
(* Vocabulary of the properties.                                           *)
(***************************************************************************)
\* the ids of a trace, in order
TraceIds(trace) == [i \in 1..Len(trace) |-> trace[i].id]
InTrace(trace, n) == \E i \in 1..Len(trace) : trace[i].id = n
\* s has an entry before the first entry of t
Before(trace, s, t) == IndexOf(TraceIds(trace), s) # 0
                       /\ IndexOf(TraceIds(trace), s) < IndexOf(TraceIds(trace), t)
\* Kahn's loop reaches every node: the workflow has no cycle
Acyclic == Len(KahnPrefix(node_ids, connections_data)) = Len(node_ids)
ForeachIds == {n \in Range(node_ids) : nodes_data[n].type = "foreach"}
Body(f) == Range(find_downstream_nodes(f, nodes_data, connections_data))
Masked == MaskedSet(node_ids, nodes_data, connections_data)
Connections == Range(connections_data)
CallsOf(executor) == {i \in 1..Len(calls) : calls[i].executor = executor}

(***************************************************************************)
(* C1.  Dependency order of the top-level trace.                           *)
(***************************************************************************)
\* C1 as stated: in the trace returned by a successful run of an acyclic
\* workflow, every connection s->t has s before t, or t is masked under a
\* foreach that is in the trace.
C1_OrderAsStated ==
    (pc = "done" /\ Acyclic /\ response.status = "success") =>
        \A c \in Connections :
            \/ Before(response.nodes, c.source, c.target)
            \/ \E f \in ForeachIds : c.target \in Body(f) /\ InTrace(response.nodes, f)

\* C1, amended: for an acyclic workflow and every connection s->t, at every
\* moment of the run: if t has a trace entry, then s is before t in the trace
\* or s is masked under a foreach that is before t in the trace; and if t is
\* masked, a successful run has in its trace a foreach under which t is masked.
C1_OrderOfExecutedTargets ==
    Acyclic =>
        \A c \in Connections :
            /\ InTrace(node_results, c.target) =>
                  \/ Before(node_results, c.source, c.target)
                  \/ \E f \in ForeachIds :
                        c.source \in Body(f) /\ Before(node_results, f, c.target)
            /\ (c.target \in Masked /\ pc = "done" /\ response.status = "success") =>
                  \E f \in ForeachIds : c.target \in Body(f) /\ InTrace(response.nodes, f)

\* a finished successful run with both cases: a connection between two traced
\* nodes and a connection from a masked node into a traced one
C1_Witness ==
    /\ pc = "done" /\ Acyclic /\ response.status = "success"
    /\ \E c \in Connections : c.source \in Masked /\ InTrace(response.nodes, c.target)
    /\ \E c \in Connections : Before(response.nodes, c.source, c.target)

(***************************************************************************)
(* C2.  One write per node id.                                             *)
(***************************************************************************)
\* C2: in one run the entry of node_outputs of every node id is written at
\* most once and no node has two trace entries.
C2_OutputWrittenOnce ==
    /\ \A n \in Range(node_ids) : output_writes[n] <= 1
    /\ \A i, j \in 1..Len(node_results) : node_results[i].id = node_results[j].id => i = j

(***************************************************************************)
(* C3.  One endloop execution per executed foreach.                        *)
(***************************************************************************)
\* the endloop find_downstream_nodes reaches from f, or None
ReachableEndloop(f) ==
    EndloopOf(find_downstream_nodes(f, nodes_data, connections_data), nodes_data)

\* C3: every foreach that was executed with a success outcome and has a
\* reachable endloop had the EndLoop executor invoked exactly once by its
\* handoff, and the endloop's output is recorded under the endloop id.
C3_EndloopOncePerForeach ==
    \A i \in 1..Len(node_results) :
        LET f == node_results[i].id
        IN (f \in ForeachIds /\ node_results[i].status = "success"
            /\ ReachableEndloop(f) # None) =>
              /\ Cardinality({k \in CallsOf("endloop") : calls[k].by = f}) = 1
              /\ ReachableEndloop(f) \in DOMAIN node_outputs

(***************************************************************************)
(* C4.  Masked nodes are not run by the top-level sweep.                   *)
(***************************************************************************)
\* C4: no node of the masked set has an entry in the top-level trace and the
\* top-level sweep invokes no executor for it.
C4_MaskedNotInTrace ==
    /\ \A i \in 1..Len(node_results) : node_results[i].id \notin Masked
    /\ \A i \in 1..Len(calls) : calls[i].by = "sweep" => calls[i].node \notin Masked

\* the sweep has gone past a masked node and finished the run
C4_Witness ==
    /\ pc = "done" /\ response.status = "success"
    /\ Masked # {}
    /\ Len(response.nodes) >= 2

(***************************************************************************)
(* C5.  Failure policy of the scheduler.                                   *)
(***************************************************************************)
ErrorEntries(trace) == {i \in 1..Len(trace) : trace[i].status = "error"}

\* C5: in the response of a finished run the overall status is success
\* exactly when every trace entry is a success; an error entry is the last and
\* only one, every executed node is in the trace, and the overall error names
\* the failing node.
C5_FailurePolicy ==
    pc = "done" =>
        /\ response.status = "success" <=> ErrorEntries(response.nodes) = {}
        /\ response.nodes = node_results
        /\ ErrorEntries(response.nodes) # {} =>
              /\ ErrorEntries(response.nodes) = {Len(response.nodes)}
              /\ response.status = "error"
              /\ response.error.node = response.nodes[Len(response.nodes)].id

(***************************************************************************)
(* C6.  Failures become error outcomes.                                    *)
(***************************************************************************)
\* C6: no executor invocation of the scheduler raises, and the response of a
\* finished run carries the trace of every node executed.
C6_FailuresBecomeOutcomes ==
    /\ \A i \in 1..Len(calls) : calls[i].kind # "raise"
    /\ pc = "done" => response.nodes = node_results

(***************************************************************************)
(* C7.  A failed iteration does not fail the foreach.                      *)
(***************************************************************************)
\* the iteration records a foreach collected whose status is not success
FailedRecords(c) == {i \in 1..Len(c.iterations) : ~IsSuccess(c.iterations[i])}
\* the foreach invocations one of whose iterations failed
CallsWithFailedIteration == {i \in CallsOf("foreach") : FailedRecords(calls[i]) # {}}

\* C7: when an iteration of a foreach failed, its record has status error and
\* a non-null error, the foreach outcome (as returned and as in the trace) is
\* success with failed >= 1, and the scheduler does not break at the foreach.
C7_IterationFailureContained ==
    \A i \in CallsWithFailedIteration :
        LET c == calls[i]
            entries == {k \in 1..Len(node_results) : node_results[k].id = c.node}
        IN /\ \A r \in FailedRecords(c) :
                 /\ c.iterations[r].m["status"] = VStr("error")
                 /\ c.iterations[r].m["error"] # VNull
           /\ c.kind = "return" /\ c.status = "success"
           /\ c.output.m["results"] = VList(c.iterations)
           /\ c.output.m["failed"].n >= 1
           /\ entries # {}
           /\ \A k \in entries :
                 /\ node_results[k].status = "success"
                 /\ node_results[k].output.m["failed"].n >= 1
                 /\ ~(pc = "respond" /\ k = Len(node_results))
                 /\ (pc = "done" /\ k = Len(response.nodes)) => response.status = "success"

\* a run that went on after a foreach with a failed iteration and succeeded
C7_Witness ==
    /\ pc = "done" /\ response.status = "success"
    /\ \E i \in CallsWithFailedIteration :
          \E k \in 1..Len(response.nodes) :
              response.nodes[k].id = calls[i].node /\ k < Len(response.nodes)

(***************************************************************************)
(* C8.  A foreach without a sequence to iterate.                           *)
(***************************************************************************)
\* input_data is a sequence, or a mapping with a sequence under items_key
InputHasSequence(config, input_data) ==
    \/ IsList(input_data)
    \/ HasKey(input_data, config.items_key) /\ IsList(input_data.m[config.items_key])

\* C8: a foreach whose input holds no sequence and whose configuration gives
\* no items returns an error outcome.
C8_NonSequenceIsError ==
    \A i \in CallsOf("foreach") :
        LET config == nodes_data[calls[i].node].config
        IN (~InputHasSequence(config, calls[i].input) /\ config.items = VList(<<>>)) =>
              calls[i].kind = "return" /\ calls[i].status = "error"

(***************************************************************************)
(* C9.  The input sequence is the iteration set.                           *)
(***************************************************************************)
\* the items of the iteration records of a foreach output
RecordItems(output) ==
    [k \in 1..Len(output.m["results"].xs) |-> output.m["results"].xs[k].m["item"]]

\* C9: a foreach whose input (the predecessor output the scheduler chose for
\* it) is a sequence, or a mapping with a sequence under items_key, succeeds
\* and iterates over exactly that sequence, whatever config.items holds: total
\* is its length and the records hold its items in order.  Stated for the
\* inputs json.dumps accepts and the invocations that return.
C9_InputSequenceWins ==
    \A i \in CallsOf("foreach") :
        LET c == calls[i]
            config == nodes_data[c.node].config
            expected == IF IsList(c.chosen) THEN c.chosen.xs
                        ELSE c.chosen.m[config.items_key].xs
        IN (InputHasSequence(config, c.chosen) /\ JsonSerializable(c.chosen)
            /\ c.kind = "return") =>
              /\ c.status = "success"
              /\ c.output.m["total"] = VInt(Len(expected))
              /\ RecordItems(c.output) = expected

(***************************************************************************)
(* C10.  Counts of the aggregation.                                        *)
(***************************************************************************)
\* aggregated_outputs has `successful` entries and the counts add up to the
\* number of items
CountsAgree(output, n) ==
    /\ Len(output.m["aggregated_outputs"].xs) = output.m["successful"].n
    /\ output.m["successful"].n + output.m["failed"].n = output.m["total"].n
    /\ output.m["total"].n = n

\* C10: for every foreach that ran its iterations towards an endloop, in the
\* aggregation it returns and in the endloop's output, aggregated_outputs has
\* exactly `successful` entries and successful + failed = total = |I|.
C10_AggregationCounts ==
    /\ \A i \in CallsOf("foreach") :
          HasKey(calls[i].output, "aggregated_outputs") =>
              CountsAgree(calls[i].output, Len(calls[i].output.m["items"].xs))
    /\ \A i \in {k \in CallsOf("endloop") : calls[k].by # "sweep"} :
          CountsAgree(calls[i].output, Len(calls[i].output.m["items"].xs))

(***************************************************************************)
(* C11.  aggregated_outputs holds the output of every successful iteration. *)
(***************************************************************************)
RECURSIVE SuccessfulOutputs(_)
\* the `output` of the records with status success, in order
SuccessfulOutputs(results) ==
    IF results = <<>> THEN <<>>
    ELSE IF IsSuccess(Head(results))
    THEN <<Head(results).m["output"]>> \o SuccessfulOutputs(Tail(results))
    ELSE SuccessfulOutputs(Tail(results))

\* the invocations of the EndLoop executor made by a foreach's handoff
HandoffCalls == {i \in CallsOf("endloop") : calls[i].by # "sweep"}

\* C11: in the output of every endloop driven by a foreach's aggregation,
\* aggregated_outputs is, in order, the output of every iteration record of
\* `results` whose status is success, a null output included.
C11_AggregatedOutputsComplete ==
    \A i \in HandoffCalls :
        calls[i].output.m["aggregated_outputs"].xs
            = SuccessfulOutputs(calls[i].output.m["results"].xs)

(***************************************************************************)
(* C12.  The counts of the endloop output.                                 *)
(***************************************************************************)
CountStatus(results, status) ==
    Cardinality({k \in 1..Len(results) : results[k].m["status"] = VStr(status)})

\* successful and failed count the records of `results` by status
CountsMatchResults(output) ==
    /\ output.m["successful"].n = CountStatus(output.m["results"].xs, "success")
    /\ output.m["failed"].n = CountStatus(output.m["results"].xs, "error")

\* C12: in the output recorded for the endloop, and in the trace entry of the
\* foreach that handed off to it, successful is the number of records of
\* `results` with status success and failed the number with status error.
C12_EndloopCountsMatchResults ==
    \A i \in HandoffCalls :
        /\ CountsMatchResults(calls[i].output)
        /\ CountsMatchResults(node_outputs[calls[i].node])
        /\ \A k \in 1..Len(node_results) :
              node_results[k].id = calls[i].by => CountsMatchResults(node_results[k].output)

(***************************************************************************)
(* Vocabulary of the properties of one execute_foreach_loop call.          *)
(***************************************************************************)
TaskIds == DOMAIN iteration_tasks
TasksIn(states) == {k \in TaskIds : iteration_tasks[k].state \in states}
\* the iterations that have started their sub-workflow and not finished it
InFlight == TasksIn({"awaiting"})
\* the iterations that hold a slot of the semaphore
SlotHolders == TasksIn({"awaiting", "admitted"})
\* iteration k was suspended in an awaited executor
HasAwaited(k) == \E p \in 1..Len(events) : events[p].it = k /\ events[p].ev = "await"
\* every event of an iteration comes after the end of every earlier iteration
InSerialOrder(log) ==
    \A q \in 1..Len(log) :
        \A i \in 1..(log[q].it - 1) :
            \E p \in 1..(q - 1) : log[p] = Event(i, None, "finish")
\* the call as the same foreach in serial mode returns it
SerialCall ==
    execute_foreach_loop([loop_call.config EXCEPT !.execution_mode = "serial"],
                         loop_call.input_data, loop_call.foreach_node_id,
                         loop_call.nodes, loop_call.conns)

(***************************************************************************)
(* C13.  Serial iterations do not overlap.                                 *)
(***************************************************************************)
\* C13: in a serial foreach, whenever iteration i+1 has started a body node
\* (or done anything), iteration i has completed: the log holds the end of
\* every earlier iteration before each event.
C13_SerialIterationsInOrder ==
    (lpc \in {"iterating", "done"} /\ Mode # "parallel") => InSerialOrder(events)

\* a finished serial call two of whose iterations were suspended in an executor
C13_Witness ==
    /\ lpc = "done" /\ Mode # "parallel"
    /\ HasAwaited(1) /\ HasAwaited(2)

(***************************************************************************)
(* C14.  The semaphore bounds the iterations in flight.                    *)
(***************************************************************************)
\* C14: in a parallel foreach, at every moment, the iterations that have
\* started their sub-workflow and not finished it, and the iterations that
\* hold a slot, number at most max_concurrency.
C14_InFlightBounded ==
    semaphore.made =>
        /\ Cardinality(InFlight) <= loop_call.config.max_concurrency
        /\ Cardinality(SlotHolders) <= loop_call.config.max_concurrency

\* max_concurrency iterations are in flight and another waits for a slot
C14_Witness ==
    /\ semaphore.made /\ loop_call.config.max_concurrency = 2
    /\ Cardinality(InFlight) = 2
    /\ TasksIn({"waiting"}) # {}

(***************************************************************************)
(* C15.  The results are in the order of the items.                        *)
(***************************************************************************)
\* C15: in both modes, the results of a foreach that returned hold one record
\* per item of the iteration set, and the k-th record is of the k-th item,
\* whatever the order in which the iterations finished.
C15_ResultsInItemOrder ==
    (lpc = "done" /\ loop_result.status = "success") =>
        LET results == loop_result.output.m["results"].xs
        IN /\ Len(results) = Len(Items.xs)
           /\ \A k \in 1..Len(results) : results[k].m["item"] = Items.xs[k]
           /\ IsList(loop_call.input_data) /\ Truthy(loop_call.input_data) =>
                 Items = loop_call.input_data

\* a parallel call returned after a later iteration finished before an earlier one
C15_Witness ==
    /\ lpc = "done" /\ Mode = "parallel"
    /\ Len(loop_result.output.m["results"].xs) >= 2
    /\ \E p, q \in 1..Len(FinishOrder(events)) :
          p < q /\ FinishOrder(events)[p] > FinishOrder(events)[q]

(***************************************************************************)
(* C16.  A failed iteration of a parallel foreach does not abort its peers. *)
(***************************************************************************)
\* C16: in a parallel foreach (with a slot to give), every slot taken is held
\* by an iteration that has not finished, so a finished iteration, failed or
\* not, has released its slot; an iteration that waits is never left without
\* a slot holder to wake it; every finished iteration has the record that
\* iteration yields on its own, an error record when its sub-workflow failed;
\* and the call returns success with a record of every item.
C16_FailureIsolated ==
    (semaphore.made /\ loop_call.config.max_concurrency >= 1) =>
        /\ semaphore.value >= 0
        /\ semaphore.value + Cardinality(SlotHolders) = loop_call.config.max_concurrency
        /\ TasksIn({"waiting"}) # {} => SlotHolders # {}
        /\ \A k \in TasksIn({"done"}) :
              /\ iteration_tasks[k].record
                    = execute_iteration(Items.xs[k], loop_call.input_data, CallNodes,
                                        loop_call.nodes, loop_call.conns)
              /\ ~IsSuccess(iteration_tasks[k].record) =>
                    /\ iteration_tasks[k].record.m["status"] = VStr("error")
                    /\ iteration_tasks[k].record.m["output"] = VNull
        /\ lpc = "done" =>
              /\ loop_result.status = "success"
              /\ loop_result.iterations = [k \in TaskIds |-> iteration_tasks[k].record]

\* with one slot, the first iteration failed inside an awaited executor while
\* the second waited for the slot, and the second then succeeded
C16_Witness ==
    /\ lpc = "done" /\ semaphore.made /\ loop_call.config.max_concurrency = 1
    /\ Len(loop_result.iterations) >= 2
    /\ HasAwaited(1)
    /\ ~IsSuccess(loop_result.iterations[1])
    /\ IsSuccess(loop_result.iterations[2])

(***************************************************************************)
(* C17.  Parallel mode with one slot is serial mode.                       *)
(***************************************************************************)
\* C17: a call in parallel mode with max_concurrency = 1 ends as the same call
\* in serial mode ends: it returns the same outcome (results, counts,
\* aggregated_outputs) and its body nodes run in the serial order.  The serial
\* call itself, followed step by step, ends the same way.
C17_OneSlotIsSerial ==
    (\/ Mode # "parallel"
     \/ Mode = "parallel" /\ loop_call.config.max_concurrency = 1) =>
        /\ lpc # "raised"
        /\ lpc \in {"iterating", "done"} => InSerialOrder(events)
        /\ lpc = "done" => loop_result = SerialCall

\* a finished call with one slot whose three iterations were all suspended
C17_Witness ==
    /\ lpc = "done" /\ Mode = "parallel" /\ loop_call.config.max_concurrency = 1
    /\ Len(loop_result.iterations) = 3
    /\ \A k \in 1..3 : HasAwaited(k)

(***************************************************************************)
(* C18.  Every executed foreach ends.                                      *)
(***************************************************************************)
\* the steps of the event loop task k is ready for
Ready(k) ==
    \/ iteration_tasks[k].state = "new" /\ Mode # "parallel" /\ SerialTurn(iteration_tasks, k)
    \/ iteration_tasks[k].state = "new" /\ Mode = "parallel"
         /\ \A j \in 1..(k - 1) : iteration_tasks[j].state # "new"
    \/ iteration_tasks[k].state = "admitted"
    \/ iteration_tasks[k].state = "awaiting"
         /\ (Mode = "parallel" => TasksIn({"new"}) = {})

\* C18: a call of execute_foreach_loop that is iterating can always go on
\* towards its end, for every mode and every max_concurrency: some iteration
\* is ready for a step (every awaited executor answers), or every iteration
\* has returned and the call aggregates and returns.  A call that cannot go
\* on never reaches its end.
C18_ForeachCanGoOn ==
    lpc = "iterating" =>
        \/ \E k \in TaskIds : Ready(k)
        \/ TasksIn({"done"}) = TaskIds

(***************************************************************************)
(* C19.  A node marked skipDuringExecution is not executed.                *)
(***************************************************************************)
\* the executor invocations a step adds
NewCalls == {i \in 1..Len(calls') : i > Len(calls)}
\* the entry the sweep has just appended to the trace
LastEntry == node_results'[Len(node_results')]
\* the node executions of the iteration records of a foreach invocation
SkippedInIterations(c) ==
    \A r \in 1..Len(c.iterations) :
        LET executions == c.iterations[r].m["node_executions"].xs
        IN /\ \A e \in 1..Len(executions) :
                 nodes_data[executions[e].m["node_id"].s].skipDuringExecution
                     <=> executions[e].m["status"] = VStr("skipped")
           /\ (\A e \in 1..Len(executions) : executions[e].m["status"] = VStr("skipped")) =>
                 /\ IsSuccess(c.iterations[r])
                 /\ c.iterations[r].m["output"] = c.iterations[r].m["item"]

\* C19: no step of a run invokes an executor for a node whose
\* skipDuringExecution is true; when the sweep is at such a node (not masked)
\* the step appends a success entry whose output is the node's resolved input
\* and records that input as the node's output; inside a sub-workflow such a
\* node is marked skipped instead of executed, and an iteration all of whose
\* nodes are skipped succeeds with its input as its output.
C19_SkippedNodePassesThrough ==
    [][/\ \A i \in NewCalls :
             /\ ~nodes_data[calls'[i].node].skipDuringExecution
             /\ SkippedInIterations(calls'[i])
       /\ (InLoop /\ ~IsMasked(CurrentId) /\ CurrentNode.skipDuringExecution) =>
             /\ Len(node_results') = Len(node_results) + 1
             /\ LastEntry = TraceEntry(CurrentId, Success(CurrentInput))
             /\ node_outputs'[CurrentId] = CurrentInput]_vars

(***************************************************************************)
(* C20.  The input of a top-level node.                                    *)
(***************************************************************************)
\* the recorded output of the first predecessor of node_id, in connection
\* order, that has a recorded output; the empty mapping when there is none
FirstRecordedOutput(node_id) ==
    LET sources == PotentialSources(node_id, connections_data, node_outputs)
    IN IF sources = <<>> THEN EmptyDict ELSE node_outputs[sources[1]]

\* C20: the input the sweep passes to the executor of a node that is not a
\* foreach, and the input a skipped node forwards, is exactly the recorded
\* output of the node's first predecessor with a recorded output, whatever
\* value that is, and the empty mapping only when no predecessor has one.
C20_InputIsFirstPredecessorOutput ==
    [][/\ \A i \in NewCalls :
             (calls'[i].by = "sweep" /\ calls'[i].executor # "foreach") =>
                 calls'[i].input = FirstRecordedOutput(calls'[i].node)
       /\ (InLoop /\ ~IsMasked(CurrentId) /\ CurrentNode.skipDuringExecution
           /\ CurrentNode.type # "foreach") =>
             LastEntry.output = FirstRecordedOutput(CurrentId)]_vars

(***************************************************************************)
(* C21.  The input of a foreach with several predecessors.                 *)
(***************************************************************************)
\* the recorded output a foreach with several recorded predecessors is to
\* get: of the first predecessor, in connection order, whose output is a
\* mapping with an `items` key, else of the first predecessor
PreferredOutput(node_id) ==
    LET sources == PotentialSources(node_id, connections_data, node_outputs)
        with_items == {i \in 1..Len(sources) : HasKey(node_outputs[sources[i]], "items")}
    IN IF with_items # {}
       THEN node_outputs[sources[CHOOSE i \in with_items : \A j \in with_items : i <= j]]
       ELSE node_outputs[sources[1]]

\* C21: the input the sweep passes to a foreach that has several predecessors
\* with recorded outputs is the output of the first of them whose output is a
\* mapping containing `items`, and the first predecessor's output, whatever
\* value that is, when none has such an output.
C21_ForeachPrefersItems ==
    [][\A i \in NewCalls :
          (calls'[i].by = "sweep" /\ calls'[i].executor = "foreach"
           /\ Len(PotentialSources(calls'[i].node, connections_data, node_outputs)) > 1) =>
              calls'[i].input = PreferredOutput(calls'[i].node)]_vars

(***************************************************************************)
(* C22.  The endloop's output is recorded before the nodes behind it run.  *)
(***************************************************************************)
\* the aggregated structure of an endloop
IsAggregated(v) ==
    IsDict(v) /\ DOMAIN v.m = {"results", "aggregated_outputs", "items", "total",
                               "successful", "failed"}
\* the endloops of the foreach nodes that have a success entry in the trace
DrivenEndloops(trace) ==
    {ReachableEndloop(trace[k].id) :
        k \in {j \in 1..Len(trace) : trace[j].id \in ForeachIds /\ trace[j].status = "success"}}
    \ {None}
\* every connection into node_id comes from e, and there is one
OnlyPredecessor(node_id, e) ==
    /\ \E c \in Connections : c.target = node_id /\ c.source = e
    /\ \A c \in Connections : c.target = node_id => c.source = e

\* C22: after every step, the endloop of every foreach that has a success
\* entry in the top-level trace has the aggregated structure recorded under
\* its id; and the input the sweep passes to a node whose predecessor is such
\* an endloop is that recorded structure.
C22_EndloopRecordedFirst ==
    [][/\ \A e \in DrivenEndloops(node_results') :
             e \in DOMAIN node_outputs' /\ IsAggregated(node_outputs'[e])
       /\ \A i \in NewCalls : \A e \in DrivenEndloops(node_results) :
             (calls'[i].by = "sweep" /\ OnlyPredecessor(calls'[i].node, e)) =>
                 /\ e \in DOMAIN node_outputs
                 /\ calls'[i].input = node_outputs[e]
                 /\ IsAggregated(calls'[i].input)]_vars

(***************************************************************************)
(* C23.  The execution order.                                              *)
(***************************************************************************)
\* s holds every element of S exactly once
IsPermutation(s, S) ==
    /\ Range(s) = S
    /\ \A i, j \in 1..Len(s) : s[i] = s[j] => i = j

\* the nodes Kahn's loop did not reach, in the order of the node map
RemainingInMapOrder ==
    SeqFilter(node_ids, Range(node_ids) \ Range(KahnPrefix(node_ids, connections_data)))

\* C23: the execution order the scheduler computed is a permutation of the
\* node ids: the Kahn prefix followed by the remaining nodes in the order of
\* the node map.
C23_ExecutionOrder ==
    pc \in {"loop", "respond", "done", "hung"} =>
        /\ IsPermutation(execution_order, Range(node_ids))
        /\ execution_order = KahnPrefix(node_ids, connections_data) \o RemainingInMapOrder

(***************************************************************************)
(* C24.  A two-node cycle.                                                 *)
(***************************************************************************)
\* the node types with an executor of their own that is run by the sweep
Executable == {"start", "end", "python", "typescript"}
\* the pairs a, b with a->b and b->a, both of an executable type and not
\* marked skipped, that have no connection from any other node
TwoCycles ==
    {ab \in Range(node_ids) \X Range(node_ids) :
        /\ ab[1] # ab[2]
        /\ Conn(ab[1], ab[2]) \in Connections /\ Conn(ab[2], ab[1]) \in Connections
        /\ \A c \in Connections : c.target \in {ab[1], ab[2]} => c.source \in {ab[1], ab[2]}
        /\ \A n \in {ab[1], ab[2]} :
              nodes_data[n].type \in Executable /\ ~nodes_data[n].skipDuringExecution}
\* the executor invocations the sweep made for node n
SweepCallsOf(n) == {i \in 1..Len(calls) : calls[i].by = "sweep" /\ calls[i].node = n}
\* every node outside S that ran succeeded
OthersSucceeded(S) == \A k \in ErrorEntries(node_results) : node_results[k].id \in S

\* C24 as stated: in a run that finished with success both nodes of a
\* two-node cycle were executed exactly once, each with the empty mapping as
\* input, and the run returned its trace.
C24_CycleAsStated ==
    (pc = "done" /\ response.status = "success") =>
        \A ab \in TwoCycles :
            /\ response.nodes = node_results
            /\ \A n \in {ab[1], ab[2]} :
                  /\ Cardinality(SweepCallsOf(n)) = 1
                  /\ \A i \in SweepCallsOf(n) : calls[i].input = EmptyDict

\* C24, amended: a workflow with a two-node cycle is run, not rejected.  Each
\* node of the cycle is executed at most once and no invocation raises; the
\* node that comes first in the execution order gets the empty mapping; the
\* other is executed only after the first succeeded and gets the first's
\* recorded output (the empty mapping when that output is falsy); a finished
\* run returns its trace, and a successful one has executed both nodes.
C24_CycleRuns ==
    \A ab \in TwoCycles :
        LET both == SweepCallsOf(ab[1]) \cup SweepCallsOf(ab[2])
        IN /\ \A n \in {ab[1], ab[2]} : Cardinality(SweepCallsOf(n)) <= 1
           /\ \A i \in both : calls[i].kind = "return"
           /\ \A i \in both : (\A j \in both : i <= j) => calls[i].input = EmptyDict
           /\ \A i, j \in both :
                 i < j => /\ calls[i].status = "success"
                          /\ calls[j].input = IF Truthy(calls[i].output) THEN calls[i].output
                                              ELSE EmptyDict
           /\ (pc = "done" /\ OthersSucceeded({ab[1], ab[2]})) =>
                 /\ response.nodes = node_results
                 /\ response.status = "success" =>
                       \A n \in {ab[1], ab[2]} : Cardinality(SweepCallsOf(n)) = 1

\* a finished run executed both nodes of a cycle, the second with the output
\* of the first
C24_Witness ==
    /\ pc = "done" /\ response.status = "success"
    /\ \E ab \in TwoCycles :
          /\ SweepCallsOf(ab[1]) # {} /\ SweepCallsOf(ab[2]) # {}
          /\ \E i \in SweepCallsOf(ab[2]) : calls[i].input # EmptyDict

(***************************************************************************)
(* C25.  The result of the condition executor.                             *)
(***************************************************************************)
\* a finished invocation of the named executor
Ran(executor) == epc = "done" /\ exec_call.executor = executor

\* C25: for a condition configuration whose clauses each hold an output and
\* that holds a default, output.result is the output of the lowest-index
\* clause whose condition evaluates true and output.matched_condition is its
\* index; when no clause matches, output.result is the default and
\* output.matched_condition is null; whatever the clause outputs and the
\* default are.
C25_ConditionResult ==
    (/\ Ran("condition")
     /\ "default" \in DOMAIN exec_call.config
     /\ \A i \in 1..Len(exec_call.config.conditions) :
           "output" \in DOMAIN exec_call.config.conditions[i]) =>
        LET conditions == exec_call.config.conditions
            matching == {i \in 1..Len(conditions) :
                            evaluate_condition(conditions[i].condition, exec_call.input_data)}
            lowest == CHOOSE i \in matching : \A j \in matching : i <= j
        IN /\ exec_result.status = "success"
           /\ matching # {} =>
                 /\ exec_result.output.m["result"] = conditions[lowest].output
                 /\ exec_result.output.m["matched_condition"] = VInt(lowest - 1)
           /\ matching = {} =>
                 /\ exec_result.output.m["result"] = exec_call.config.default
                 /\ exec_result.output.m["matched_condition"] = VNull

(***************************************************************************)
(* C26.  File and database nodes stay inside their safe directories.       *)
(***************************************************************************)
\* C26: for every configured path, the location a file node reads, writes,
\* appends, deletes or lists is /tmp/workflow_files or below it, and the
\* database file a database node opens is /tmp/workflow_dbs or below it.
C26_PathsStayInside ==
    /\ Ran("file") => \A loc \in exec_result.touched : Inside(loc, FilesRoot)
    /\ Ran("database") => \A loc \in exec_result.touched : Inside(loc, DbRoot)


\* C27: an http node whose response has a status code outside 200..299 ends
\* with an error outcome: a success outcome of the http executor holds a 2xx
\* status code.
C27_Non2xxIsError ==
    Ran("http") /\ exec_result.status = "success"
        => exec_result.output.m.status_code.n \in 200..299

\* no `{key}` of a key of the input mapping is in the text (of an input that
\* is no mapping, none is)
NoKeyIn(chars, data) ==
    IsDict(data) =>
        \A key \in DOMAIN data.m :
            \A i \in 1..Len(chars) : ~StartsAt(chars, i, <<"{">> \o KeyChars[key] \o <<"}">>)

RECURSIVE Kept(_, _, _)
\* out is obj with its texts that hold no `{key}` and its leaves that are no
\* texts as they were, in the same mappings and lists
Kept(obj, out, data) ==
    IF IsText(obj) THEN IsText(out) /\ (NoKeyIn(obj.chars, data) => out = obj)
    ELSE IF IsDict(obj)
    THEN /\ IsDict(out) /\ DOMAIN out.m = DOMAIN obj.m
         /\ \A k \in DOMAIN obj.m : Kept(obj.m[k], out.m[k], data)
    ELSE IF IsList(obj)
    THEN /\ IsList(out) /\ Len(out.xs) = Len(obj.xs)
         /\ \A i \in 1..Len(obj.xs) : Kept(obj.xs[i], out.xs[i], data)
    ELSE out = obj

\* the configuration the substitution is applied to
Configured(config) ==
    [url |-> ConfigGet(config, "url", VText(<<>>)),
     headers |-> ConfigGet(config, "headers", EmptyDict),
     params |-> ConfigGet(config, "params", EmptyDict),
     body |-> ConfigGet(config, "body", EmptyDict)]

\* C28: the substitution leaves a text as it is when it holds no `{key}` for
\* any key of the input mapping, and every text when the input is no mapping;
\* leaves that are no texts are never changed.
C28_SubstitutionKeeps ==
    Ran("http") =>
        \A part \in {"url", "headers", "params", "body"} :
            Kept(Configured(exec_call.config)[part], exec_result.processed[part],
                 exec_call.input_data)

\* a call whose body holds a text that is changed next to a text with `{c}`,
\* a number, None and a boolean that are kept
C28_Witness ==
    /\ Ran("http")
    /\ IsDict(exec_call.input_data) /\ "b" \in DOMAIN exec_call.input_data.m
    /\ "body" \in DOMAIN exec_call.config /\ IsDict(exec_call.config.body)
    /\ "l" \in DOMAIN exec_call.config.body.m
    /\ exec_result.processed.body.m.l.xs[1] # exec_call.config.body.m.l.xs[1]
    /\ exec_result.processed.body.m.w = exec_call.config.body.m.w
    /\ exec_result.processed.body.m.l.xs[2] = VNull
    /\ exec_result.processed.body.m.n = VInt(1)


RECURSIVE PlaceholdersBefore(_, _)
\* the `?` of the statements executed before the k-th
PlaceholdersBefore(executions, k) ==
    IF k <= 1 THEN 0
    ELSE PlaceholdersBefore(executions, k - 1) + Count(executions[k - 1].stmt, "?")

\* a database call of the operations with several statements and as many
\* parameters as the query has `?`
SeveralStatements(operations) ==
    /\ Ran("database")
    /\ ConfigGet(exec_call.config, "operation", "select") \in operations
    /\ Len(Statements(ConfigGet(exec_call.config, "query", <<>>))) > 1
    /\ Count(ConfigGet(exec_call.config, "query", <<>>), "?")
           = Len(ConfigGet(exec_call.config, "params", <<>>))

\* every statement executed was given the parameters at the positions of its
\* `?` among those of the query
PositionalParams ==
    LET params == ConfigGet(exec_call.config, "params", <<>>)
        processed_params == [k \in 1..Len(params) |->
                                ProcessParam(params[k], exec_call.input_data)]
    IN \A k \in 1..Len(exec_result.executions) :
          exec_result.executions[k].params
              = Slice(processed_params,
                      PlaceholdersBefore(exec_result.executions, k),
                      Count(exec_result.executions[k].stmt, "?"))

\* C29: in a query of several statements the parameters are consumed in
\* order, each statement receiving as many as it has `?`, for select, insert,
\* update and delete.
C29_PositionalParams ==
    SeveralStatements({"select", "insert", "update", "delete"}) => PositionalParams


(***************************************************************************)
(* C30.  The downstream list of a foreach.                                 *)
(***************************************************************************)
RECURSIVE OpenFrom(_, _)
\* the nodes a path of connections from the nodes of `from` reaches without
\* entering an endloop, end or foreach node, added to `found`
OpenFrom(from, found) ==
    LET more == {c.target : c \in {x \in Connections : x.source \in from}}
        open == {t \in more : nodes_data[t].type \notin {"endloop", "end", "foreach"}}
    IN IF open \subseteq found THEN found ELSE OpenFrom(open \ found, found \cup open)

\* the ids of the list whose node is not an endloop
NonEndloop(downstream) ==
    {downstream[i] : i \in {j \in 1..Len(downstream) :
                               nodes_data[downstream[j]].type # "endloop"}}

\* C30: the non-endloop part of find_downstream_nodes(F) is the set of nodes
\* reachable from F along connections without entering an endloop, end or
\* foreach node; the list holds no end and no foreach node, and at most one
\* endloop, which is its last element.
C30_DownstreamIsOpenReach ==
    \A f \in ForeachIds :
        LET downstream == find_downstream_nodes(f, nodes_data, connections_data)
        IN /\ NonEndloop(downstream) = OpenFrom({f}, {})
           /\ \A i \in 1..Len(downstream) :
                 /\ nodes_data[downstream[i]].type \notin {"end", "foreach"}
                 /\ nodes_data[downstream[i]].type = "endloop" => i = Len(downstream)

\* a run masked the list of a foreach that holds a body node and then its
\* endloop, with a node behind the endloop that is left out
C30_Witness ==
    /\ pc = "done"
    /\ \E f \in ForeachIds :
          LET downstream == find_downstream_nodes(f, nodes_data, connections_data)
          IN /\ Len(downstream) >= 2
             /\ nodes_data[downstream[Len(downstream)]].type = "endloop"
             /\ Range(downstream) \subseteq nodes_to_skip
             /\ \E c \in Connections :
                   /\ c.source = downstream[Len(downstream)]
                   /\ c.target \notin Range(downstream) \cup {f}


(***************************************************************************)
(* C31..C36.  The sub-workflow runner.                                     *)
(***************************************************************************)
\* a call of the sub-workflow runner is followed
InSub == epc # "idle" /\ exec_call.executor = "sub_workflow"
SubSteps == IF InSub THEN exec_result.steps ELSE <<>>
\* the steps in which the node's executor was run and returned a success
RunSteps ==
    {i \in 1..Len(SubSteps) :
        /\ ~exec_call.nodes[SubSteps[i].node].skipDuringExecution
        /\ SubSteps[i].outcome.status = "success"}

\* C31: when the input and the output of a body node are both mappings,
\* `_workflow_context`, `route`, `action` and `priority` are copied from the
\* input only when the output does not hold the key; a value the node put
\* there is kept.
C31_MetadataWhenAbsent ==
    \A i \in RunSteps :
        LET own == SubSteps[i].outcome.output
            input_data == SubSteps[i].input
            output == SubSteps[i].output
        IN IsDict(own) /\ IsDict(input_data) =>
              /\ IsDict(output)
              /\ \A key \in {"_workflow_context", "route", "action", "priority"} :
                    IF key \in DOMAIN own.m
                    THEN key \in DOMAIN output.m /\ output.m[key] = own.m[key]
                    ELSE IF key \in DOMAIN input_data.m
                    THEN key \in DOMAIN output.m /\ output.m[key] = input_data.m[key]
                    ELSE key \notin DOMAIN output.m


\* the output recorded for node n before step i: that of its last run
RecordedBefore(i, n) ==
    LET runs == {j \in 1..(i - 1) : SubSteps[j].node = n}
    IN SubSteps[CHOOSE j \in runs : \A k \in runs : k <= j].output

\* the predecessors of the node of step i that were run before it
RunPredecessors(i) ==
    {c.source : c \in {x \in Range(exec_call.conns) :
                          /\ x.target = SubSteps[i].node
                          /\ \E j \in 1..(i - 1) : SubSteps[j].node = x.source}}

\* C32: the input of a body node is the recorded output of a predecessor that
\* was run before it in the same call when there is one, else the seed (first
\* node) or the output of the node run just before; a call that returns a
\* success returns the output of the last node run, or the seed when the list
\* is empty.
C32_SubWorkflowInput ==
    /\ \A i \in 1..Len(SubSteps) :
          IF RunPredecessors(i) # {}
          THEN \E p \in RunPredecessors(i) : SubSteps[i].input = RecordedBefore(i, p)
          ELSE IF i = 1 THEN SubSteps[i].input = exec_call.starting_input
          ELSE SubSteps[i].input = SubSteps[i - 1].output
    /\ InSub /\ epc = "done" /\ exec_result.status = "success" =>
          exec_result.output = IF SubSteps = <<>> THEN exec_call.starting_input
                               ELSE SubSteps[Len(SubSteps)].output

\* a call returned after a node took the output of a predecessor that was not
\* the node run just before it
C32_Witness ==
    /\ InSub /\ epc = "done" /\ exec_result.status = "success"
    /\ \E i \in 2..Len(SubSteps) :
          /\ RunPredecessors(i) # {}
          /\ SubSteps[i - 1].node \notin RunPredecessors(i)
          /\ SubSteps[i].input # SubSteps[i - 1].output


\* C33: the runner stops at the first body node whose outcome is an error: an
\* error outcome is that of the last node run and ends the call, which returns
\* status error with output null; node_executions lists the nodes run so far,
\* in the order of the list, the failing one last.
C33_StopsAtFirstError ==
    InSub =>
        /\ \A i \in 1..Len(SubSteps) :
              SubSteps[i].outcome.status = "error" =>
                  /\ i = Len(SubSteps)
                  /\ epc = "done" /\ exec_result.status = "error"
        /\ epc = "done" /\ exec_result.status = "error" =>
              /\ exec_result.output = VNull
              /\ SubSteps # <<>>
              /\ SubSteps[Len(SubSteps)].outcome.status = "error"
              /\ exec_result.error = SubSteps[Len(SubSteps)].outcome.error
              /\ Len(exec_result.node_executions) = Len(SubSteps)
              /\ \A i \in 1..Len(SubSteps) :
                    /\ SubSteps[i].node = exec_call.node_ids[i]
                    /\ exec_result.node_executions[i].m.node_id = VStr(SubSteps[i].node)
              /\ exec_result.node_executions[Len(SubSteps)].m.status = VStr("error")

\* a call ended at a failing node that was not the first of the list, with a
\* node behind it that was not run
C33_Witness ==
    /\ InSub /\ epc = "done" /\ exec_result.status = "error"
    /\ Len(SubSteps) >= 2
    /\ Len(SubSteps) < Len(exec_call.node_ids)


(***************************************************************************)
(* C34.  The seed of an iteration and the item it was made from.           *)
(***************************************************************************)
\* seed is item with a `_workflow_context` field that holds input_data
WithContext(seed, item, input_data) ==
    /\ IsDict(seed)
    /\ DOMAIN seed.m = DOMAIN item.m \cup {"_workflow_context"}
    /\ seed.m["_workflow_context"] = input_data
    /\ \A key \in DOMAIN item.m \ {"_workflow_context"} : seed.m[key] = item.m[key]

\* C34: the seed input of the iteration of an item is the item with a
\* `_workflow_context` field holding the foreach's input when both are
\* mappings, else the item itself; the `item` field of the iteration's record
\* and the `items` list of the aggregation hold the item as it was given.
C34_SeedAndItem ==
    lpc \in {"iterating", "done"} =>
        /\ \A k \in DOMAIN iteration_tasks :
              /\ iteration_tasks[k].state = "new" =>
                    IF IsDict(Items.xs[k]) /\ IsDict(loop_call.input_data)
                    THEN WithContext(iteration_tasks[k].st.current_input, Items.xs[k],
                                     loop_call.input_data)
                    ELSE iteration_tasks[k].st.current_input = Items.xs[k]
              /\ iteration_tasks[k].state = "done" =>
                    iteration_tasks[k].record.m["item"] = Items.xs[k]
        /\ lpc = "done" /\ loop_result.kind = "return" /\ loop_result.status = "success"
           /\ Items.xs # <<>> =>
              /\ loop_result.output.m["items"] = Items
              /\ \A k \in 1..Len(Items.xs) :
                    loop_result.output.m["results"].xs[k].m["item"] = Items.xs[k]

\* a call returned whose first iteration went through the body with the
\* context added to its item, and whose record holds the item without it
C34_Witness ==
    /\ lpc = "done" /\ IsDict(loop_call.input_data)
    /\ Len(loop_result.iterations) >= 2
    /\ IsDict(loop_result.iterations[1].m["output"])
    /\ loop_result.iterations[1].m["output"].m["_workflow_context"] = loop_call.input_data
    /\ "_workflow_context" \notin DOMAIN loop_result.iterations[1].m["item"].m
    /\ loop_result.output.m["items"].xs[1] = loop_result.iterations[1].m["item"]


\* C35: within one iteration every body node is run at most once, whatever
\* the shape of the body.
C35_BodyNodeOnce ==
    \A i, j \in 1..Len(SubSteps) : SubSteps[i].node = SubSteps[j].node => i = j

\* the predecessors of node n by a connection that are nodes of the body
BodyPredecessors(n) ==
    {c.source : c \in {x \in Range(exec_call.conns) : x.target = n}}
        \cap Range(exec_call.node_ids)

\* no cycle among the nodes of the body: they can be put in an order that
\* every connection between them goes along
BodyAcyclic ==
    \E order \in Perms(Range(exec_call.node_ids)) :
        \A i, j \in 1..Len(order) : order[j] \in BodyPredecessors(order[i]) => j < i

\* C36: within one iteration over an acyclic body, a body node is run only
\* after every body node that is its predecessor by a connection, and its
\* input is the seed or the output of a predecessor.
C36_BodyInDependencyOrder ==
    InSub /\ BodyAcyclic =>
        \A i \in 1..Len(SubSteps) :
            /\ epc = "done" /\ exec_result.status = "success" =>
                  \A p \in BodyPredecessors(SubSteps[i].node) :
                      \E j \in 1..(i - 1) : SubSteps[j].node = p
            /\ \/ SubSteps[i].source \in BodyPredecessors(SubSteps[i].node)
               \/ SubSteps[i].source = None /\ SubSteps[i].previous = None
               \/ SubSteps[i].source = None
                  /\ SubSteps[i].previous \in BodyPredecessors(SubSteps[i].node)


(***************************************************************************)
(* C37.  The trace of a successful run.                                    *)
(***************************************************************************)
\* C37: in the response of a run that ended with overall status success, the
\* trace holds the nodes that are not masked, each once, in the order of the
\* computed execution order.
C37_TraceOfSuccess ==
    pc = "done" /\ response.status = "success" =>
        /\ TraceIds(response.nodes)
               = SeqFilter(execution_order, Range(execution_order) \ Masked)
        /\ Range(TraceIds(response.nodes)) = Range(node_ids) \ Masked
        /\ \A i, j \in 1..Len(response.nodes) :
              response.nodes[i].id = response.nodes[j].id => i = j

\* a successful run with a foreach in its trace, a node behind it in the
\* trace, and masked nodes that are not
C37_Witness ==
    /\ pc = "done" /\ response.status = "success"
    /\ Masked # {} /\ Masked # Range(node_ids)
    /\ \E i \in 1..Len(response.nodes) :
          /\ response.nodes[i].id \in ForeachIds
          /\ i < Len(response.nodes)


(***************************************************************************)
(* C38.  The iterations of a foreach are isolated.                         *)
(***************************************************************************)
\* C38: every iteration starts from an empty local output map, and the record
\* of a finished iteration is the one its item and the foreach's input yield
\* when the iteration is run alone (the item alone when the input is no
\* mapping), whatever the other iterations did in between.
C38_IterationsIsolated ==
    lpc \in {"iterating", "done"} =>
        \A k \in TaskIds :
            /\ iteration_tasks[k].state = "new" =>
                  iteration_tasks[k].st.local_outputs = EmptyMap
            /\ iteration_tasks[k].state = "done" =>
                  /\ iteration_tasks[k].record
                        = execute_iteration(Items.xs[k], loop_call.input_data, CallNodes,
                                            loop_call.nodes, loop_call.conns)
                  /\ ~IsDict(loop_call.input_data) =>
                        iteration_tasks[k].record
                            = execute_iteration(Items.xs[k], VNull, CallNodes,
                                                loop_call.nodes, loop_call.conns)

\* a parallel call returned in which the second iteration ran a step between
\* two steps of the first, and the two iterations ended differently
C38_Witness ==
    /\ lpc = "done" /\ Mode = "parallel"
    /\ \E p, q, r \in 1..Len(events) :
          /\ p < q /\ q < r
          /\ events[p].it = 1 /\ events[q].it = 2 /\ events[r].it = 1
    /\ IsSuccess(loop_result.iterations[1]) # IsSuccess(loop_result.iterations[2])


(***************************************************************************)
(* C39.  Nested loops.                                                     *)
(***************************************************************************)
\* the foreach nodes that have a connection from a node of another foreach's
\* list other than its endloop, with that foreach and that node
Nestings ==
    {x \in [outer : ForeachIds, pred : Range(node_ids), inner : ForeachIds] :
        /\ x.outer # x.inner
        /\ x.pred \in Body(x.outer) /\ nodes_data[x.pred].type # "endloop"
        /\ Conn(x.pred, x.inner) \in Connections}
\* the outputs the last node of foreach f's list produced in the iterations of
\* the invocations of f that succeeded: the outputs of those iterations
LastOutputs(f) ==
    UNION {{calls[i].iterations[r].m["output"] :
               r \in {q \in 1..Len(calls[i].iterations) : IsSuccess(calls[i].iterations[q])}} :
           i \in {j \in CallsOf("foreach") : calls[j].node = f}}
IsLastOf(n, f) ==
    LET downstream == find_downstream_nodes(f, nodes_data, connections_data)
    IN downstream # <<>> /\ downstream[Len(downstream)] = n

\* C39: a foreach reachable from the list of another foreach is not in that
\* list, and the input the sweep passes to it is an output its predecessor in
\* that list produced (stated where the predecessor is the last node of the
\* list, whose outputs the iteration records show).
C39_NestedForeach ==
    \A x \in Nestings :
        /\ x.inner \notin Body(x.outer)
        /\ \A i \in CallsOf("foreach") :
              (calls[i].node = x.inner /\ calls[i].by = "sweep"
               /\ IsLastOf(x.pred, x.outer) /\ LastOutputs(x.outer) # {}) =>
                  calls[i].input \in LastOutputs(x.outer)


(***************************************************************************)
(* C40.  The order in which the /run handler of main.py runs the nodes.    *)
(***************************************************************************)
\* the invocations of the handler of main.py for node n
HandlerCalls(n) == {i \in 1..Len(calls) : calls[i].by = "handler" /\ calls[i].node = n}

\* C40: for every connection s -> t of the workflow (the workflows are
\* acyclic), whenever the handler of main.py has run t it has run s before,
\* and the input it passed to t is the output of s, whatever the order of the
\* node map.
C40_MainDependencyOrder ==
    \A c \in Connections : \A i \in HandlerCalls(c.target) :
        \E j \in HandlerCalls(c.source) : j < i /\ calls[i].input = calls[j].output

====
